---------------------------- MODULE Spec2Model ----------------------------
(***************************************************************************)
(* A model of oatyp, the OpenAPI -> TypeScript generator.                  *)
(*                                                                         *)
(* Text is modelled as a sequence of one-character strings, so that the    *)
(* regular-expression rewrites of the source (camelCase, the tag removal,  *)
(* the path placeholders) are computed and not assumed.  Each part of the  *)
(* generator is driven by its own specification:                           *)
(*   SpecNames    naming of a callable (method name, tag name, getter)     *)
(*   SpecPath     the request path built by a generated callable           *)
(*   SpecMapper   CodeGen.generateTypeNodeForSchema on one schema          *)
(*   SpecTypes    generateTypes over a schema library                      *)
(*   SpecAnalyze  analyzeOperation on one operation                        *)
(*   SpecGen      generateApi over a document                              *)
(***************************************************************************)
EXTENDS Integers, Sequences, FiniteSets, TLC

VARIABLES
  task,            \* which part of the generator this behaviour drives
  pc,              \* where that part stands: "start", ..., "done"
  thrown,          \* the exception that ended it, or "none"
  \* ---- naming (project-analyzer.ts analyzeOperationTag, api.ts generateApi)
  operationId,     \* operation.operationId as declared (empty when absent)
  operationPath,   \* context.path
  operationMethod, \* context.method
  rawTag,          \* context.rawTag
  removeTagFromOperationId, \* opts.removeTagFromOperationId
  methodName,      \* analysis.methodName
  tag,             \* analysis.tag
  getterName,      \* key of the callable in its tag object
  \* ---- the request path of a generated callable (api.ts populateOperationMethod)
  pathParams,      \* analysis.pathParams: the declared path parameter names
  params,          \* the params argument of the call: name -> text
  url,             \* the first argument handed to axios
  callOptions,     \* the options argument of the call (at most one object)
  config,          \* the last argument handed to axios (at most one object)
  \* ---- the type mapper (code-gen.ts)
  spec,            \* ctx.spec: components.schemas, in document order
  schema,          \* the schema handed to generateTypeForSchema
  ctx,             \* the rest of GenerateTypeContext
  typeNode,        \* the type node returned
  \* ---- generation loops (types.ts generateTypes, api.ts generateApi)
  cursor,          \* entries of the loop already visited
  declarations,    \* what has been added to the source file, in order
  options,         \* the opts argument of generateTypes / generateApi
  \* ---- the operation analyzer (project-analyzer.ts)
  operation,       \* the OperationObject
  analyses,        \* the AnalyzedOperationObject list of analyzeOperation
  \* ---- generateApi
  document,        \* the operations of spec.paths, in visiting order
  classDeclarationMethods, \* tag -> getter name -> bound method
  previous         \* an earlier generateApi: its document and what it wrote

namesVars == <<operationId, operationPath, operationMethod, rawTag,
               removeTagFromOperationId, methodName, tag, getterName>>
pathVars == <<pathParams, params, url, callOptions, config>>
mapperVars == <<spec, schema, ctx, typeNode>>
loopVars == <<cursor, declarations, options>>
analyzeVars == <<operation, analyses>>
genVars == <<document, classDeclarationMethods, previous>>

vars == <<task, pc, thrown, namesVars, pathVars, mapperVars, loopVars,
          analyzeVars, genVars>>

\* the value of a variable that a part of the generator does not use
Unused == <<>>

(***************************************************************************)
(* Bounds of the model.                                                    *)
(***************************************************************************)
MaxIdLen == 3      \* longest enumerated operation id
MaxTagLen == 2     \* longest enumerated raw tag

----------------------------------------------------------------------------
(***************************************************************************)
(* Text                                                                    *)
(***************************************************************************)
Lowers == <<"a", "b", "c", "d", "e", "f", "g", "h", "i", "j", "k", "l", "m",
           "n", "o", "p", "q", "r", "s", "t", "u", "v", "w", "x", "y", "z">>
Uppers == <<"A", "B", "C", "D", "E", "F", "G", "H", "I", "J", "K", "L", "M",
           "N", "O", "P", "Q", "R", "S", "T", "U", "V", "W", "X", "Y", "Z">>
Digits == {"1", "2"}

IndexIn(c, tbl) == CHOOSE k \in 1..Len(tbl) : tbl[k] = c
IsLower(c) == \E k \in 1..Len(Lowers) : Lowers[k] = c
IsUpper(c) == \E k \in 1..Len(Uppers) : Uppers[k] = c
IsLetter(c) == IsLower(c) \/ IsUpper(c)

\* String.prototype.toUpperCase / toLowerCase on one character
toUpperCase(c) == IF IsLower(c) THEN Uppers[IndexIn(c, Lowers)] ELSE c
toLowerCase(c) == IF IsUpper(c) THEN Lowers[IndexIn(c, Uppers)] ELSE c

\* the regular-expression class \w; \W is its complement
IsWordChar(c) == IsLetter(c) \/ c \in Digits \/ c = "_"

\* s.slice(i - 1): the text from the i-th character on
SliceFrom(s, i) == SubSeq(s, i, Len(s))

\* the strings over alphabet A of length at most n
RECURSIVE StringsUpTo(_, _)
StringsUpTo(A, n) ==
  IF n = 0 THEN {<<>>}
  ELSE LET shorter == StringsUpTo(A, n - 1)
       IN shorter \cup {Append(s, c) : s \in shorter, c \in A}

----------------------------------------------------------------------------
(***************************************************************************)
(* code-formatting.ts                                                      *)
(***************************************************************************)

\* isSafeIdentifier: /^[a-z_$][a-z0-9_$]*$/i
isSafeIdentifier(ident) ==
  /\ Len(ident) >= 1
  /\ IsLetter(ident[1]) \/ ident[1] \in {"_", "$"}
  /\ \A k \in 1..Len(ident) :
       IsLetter(ident[k]) \/ ident[k] \in Digits \/ ident[k] \in {"_", "$"}

\* the last index of the run of \W characters that starts at i
RECURSIVE NonWordRunEnd(_, _)
NonWordRunEnd(s, i) ==
  IF i < Len(s) /\ ~IsWordChar(s[i + 1]) THEN NonWordRunEnd(s, i + 1) ELSE i

\* str.replace(/\W+(.)/g, (match, chr) => chr.toUpperCase()), from index i.
\* \W+ is greedy; when the run reaches the end of the text it gives back its
\* last character to (.), and a lone trailing \W character matches nothing.
RECURSIVE ReplaceSeparators(_, _)
ReplaceSeparators(s, i) ==
  IF i > Len(s) THEN <<>>
  ELSE IF IsWordChar(s[i]) THEN <<s[i]>> \o ReplaceSeparators(s, i + 1)
  ELSE LET j == NonWordRunEnd(s, i)
       IN IF j < Len(s)
          THEN <<toUpperCase(s[j + 1])>> \o ReplaceSeparators(s, j + 2)
          ELSE IF j > i THEN <<toUpperCase(s[j])>>
          ELSE <<s[i]>>

\* s.charAt(0).toLowerCase() + s.slice(1); charAt(0) of "" is ""
LowerFirst(s) == IF s = <<>> THEN <<>> ELSE <<toLowerCase(s[1])>> \o SliceFrom(s, 2)

\* s.charAt(0).toUpperCase() + s.slice(1)
UpperFirst(s) == IF s = <<>> THEN <<>> ELSE <<toUpperCase(s[1])>> \o SliceFrom(s, 2)

camelCase(str) == LowerFirst(ReplaceSeparators(str, 1))

pascalCase(str) == UpperFirst(camelCase(str))

\* does the text of tag stand at index i of s, letters compared without case
TagAt(tg, s, i) ==
  /\ i + Len(tg) - 1 <= Len(s)
  /\ \A k \in 1..Len(tg) : toLowerCase(s[i + k - 1]) = toLowerCase(tg[k])

\* the index after a match of tag + '_?' that starts at i (the ? is greedy)
MatchEnd(tg, s, i) ==
  LET e == i + Len(tg)
  IN IF e <= Len(s) /\ s[e] = "_" THEN e + 1 ELSE e

\* methodName.replace(new RegExp(tag + '_?', 'gi'), ''), from index i; an
\* empty match removes nothing and the search moves on by one character
RECURSIVE ReplaceTagFrom(_, _, _)
ReplaceTagFrom(tg, s, i) ==
  IF i > Len(s) THEN <<>>
  ELSE IF TagAt(tg, s, i)
       THEN LET e == MatchEnd(tg, s, i)
            IN IF e = i THEN <<s[i]>> \o ReplaceTagFrom(tg, s, i + 1)
               ELSE ReplaceTagFrom(tg, s, e)
       ELSE <<s[i]>> \o ReplaceTagFrom(tg, s, i + 1)

\* getterName.replace(new RegExp(tag, 'gi'), ''): the removal without '_?'
RECURSIVE ReplaceBareTagFrom(_, _, _)
ReplaceBareTagFrom(tg, s, i) ==
  IF i > Len(s) THEN <<>>
  ELSE IF tg # <<>> /\ TagAt(tg, s, i)
       THEN ReplaceBareTagFrom(tg, s, i + Len(tg))
       ELSE <<s[i]>> \o ReplaceBareTagFrom(tg, s, i + 1)

removeTagFromMethodName_NoUnderscore(tg, name) == ReplaceBareTagFrom(tg, name, 1)

removeTagFromMethodName(tg, name) == ReplaceTagFrom(tg, name, 1)

----------------------------------------------------------------------------
(***************************************************************************)
(* project-analyzer.ts: the operation identifier and the names             *)
(***************************************************************************)
HTTP_METHODS == <<"get", "post", "put", "patch", "delete", "head", "options", "trace">>

\* the method name as text
MethodText(m) ==
  CASE m = "get" -> <<"g", "e", "t">>
    [] m = "post" -> <<"p", "o", "s", "t">>
    [] m = "put" -> <<"p", "u", "t">>
    [] m = "patch" -> <<"p", "a", "t", "c", "h">>
    [] m = "delete" -> <<"d", "e", "l", "e", "t", "e">>
    [] m = "head" -> <<"h", "e", "a", "d">>
    [] m = "options" -> <<"o", "p", "t", "i", "o", "n", "s">>
    [] m = "trace" -> <<"t", "r", "a", "c", "e">>

\* context.path.split('/').slice(-1).join(''): the text after the last '/'
RECURSIVE LastSlash(_, _)
LastSlash(p, i) == IF i = 0 \/ p[i] = "/" THEN i ELSE LastSlash(p, i - 1)
LastSegment(p) == SliceFrom(p, LastSlash(p, Len(p)) + 1)

\* analyzePathOperations: the declared id, or one made of the path's last
\* segment and the method when the id is absent or empty
OperationIdOf(declared, path, m) ==
  IF declared # <<>> THEN declared
  ELSE LastSegment(path) \o <<"_">> \o MethodText(m)

----------------------------------------------------------------------------
(***************************************************************************)
(* Schemas (OpenAPIV3.ReferenceObject / SchemaObject) as records.          *)
(* readOnly and writeOnly are read by the generator off the schema of a    *)
(* property; here they are fields of the property entry.                   *)
(***************************************************************************)
Ref(name) == [kind |-> "ref", ref |-> name]
AllOf(members, nullable) == [kind |-> "allOf", members |-> members, nullable |-> nullable]
OneOf(members, nullable) == [kind |-> "oneOf", members |-> members, nullable |-> nullable]
\* items is a sequence of at most one schema: empty when items is absent
ArraySchema(items, nullable) == [kind |-> "array", items |-> items, nullable |-> nullable]
Prop(name, sch, readOnly, writeOnly) ==
  [name |-> name, schema |-> sch, readOnly |-> readOnly, writeOnly |-> writeOnly]
\* additional is a sequence of at most one property entry: empty when
\* additionalProperties is absent or a boolean
ObjectSchema(properties, required, additional, nullable) ==
  [kind |-> "object", properties |-> properties, required |-> required,
   additional |-> additional, nullable |-> nullable]
\* type is "string", "integer", "number", "boolean", "null" or "" (no type)
Primitive(type, format, hasEnum, enum, nullable) ==
  [kind |-> "primitive", type |-> type, format |-> format, hasEnum |-> hasEnum,
   enum |-> enum, nullable |-> nullable]

StringSchema == Primitive("string", "", FALSE, <<>>, FALSE)

\* spec.components.schemas: a sequence of [name, schema] in document order
Entry(name, sch) == [name |-> name, schema |-> sch]
HasSchema(lib, name) == \E k \in 1..Len(lib) : lib[k].name = name
SchemaNamed(lib, name) == lib[CHOOSE k \in 1..Len(lib) : lib[k].name = name].schema

(***************************************************************************)
(* Type nodes (the ts.factory calls of code-gen.ts) as records.            *)
(***************************************************************************)
TypeReference(name, typeArguments) ==
  [kind |-> "TypeReference", typeName |-> name, typeArguments |-> typeArguments]
UnionType(types) == [kind |-> "UnionType", types |-> types]
IntersectionType(types) == [kind |-> "IntersectionType", types |-> types]
ArrayType(elementType) == [kind |-> "ArrayType", elementType |-> elementType]
ParenthesizedType(type) == [kind |-> "ParenthesizedType", type |-> type]
KeywordType(keyword) == [kind |-> "Keyword", keyword |-> keyword]
NullLiteral == [kind |-> "NullLiteral"]
StringLiteralType(text) == [kind |-> "StringLiteral", text |-> text]
NumericLiteralType(value) == [kind |-> "NumericLiteral", value |-> value]
TypeLiteral(members) == [kind |-> "TypeLiteral", members |-> members]
PropertySignature(modifiers, name, questionToken, type) ==
  [kind |-> "PropertySignature", modifiers |-> modifiers, name |-> name,
   questionToken |-> questionToken, type |-> type]
\* types[0] of an empty list
UndefinedNode == [kind |-> "undefined"]
\* generatePropertySignature returning null
NoSignature == [kind |-> "null"]

\* an exception in flight
Throw(error) == [kind |-> "throw", error |-> error]
IsThrow(node) == node.kind = "throw"
HasThrow(nodes) == \E k \in 1..Len(nodes) : IsThrow(nodes[k])
\* the first exception raised while the nodes were built in order
FirstThrow(nodes) ==
  nodes[CHOOSE k \in 1..Len(nodes) : IsThrow(nodes[k]) /\ \A j \in 1..(k - 1) : ~IsThrow(nodes[j])]

----------------------------------------------------------------------------
(***************************************************************************)
(* code-formatting.ts: references                                          *)
(***************************************************************************)
MaxCallDepth == 4   \* nested calls the runtime stack holds before RangeError

\* makeNameSafeForIdentifier: identifier(name) of safe-identifier replaces
\* the characters that cannot stand in an identifier by an underscore
makeNameSafeForIdentifier(name) ==
  CASE name = "my-pet" -> "my_pet"
    [] name = "a.b" -> "a_b"
    [] OTHER -> name

\* a faulty extractRef: the name is taken as it is written
extractRef_Raw(ref) == ref

\* extractRef: the name after '#/components/schemas/', made safe
extractRef(ref) == makeNameSafeForIdentifier(ref)

\* retrieveRef follows a named schema that is itself a reference.  A name
\* that is not in the library gives undefined, and '$ref' in undefined is
\* a TypeError; a chain that comes back to itself recurses until the stack
\* is exhausted (RangeError).
RECURSIVE retrieveRefAt(_, _, _)
retrieveRefAt(ref, lib, depth) ==
  IF depth > MaxCallDepth THEN Throw("RangeError")
  ELSE IF ~HasSchema(lib, ref) THEN Throw("TypeError")
  ELSE LET sch == SchemaNamed(lib, ref)
       IN IF sch.kind = "ref" THEN retrieveRefAt(sch.ref, lib, depth + 1) ELSE sch

retrieveRef(ref, lib) == retrieveRefAt(ref, lib, 1)

----------------------------------------------------------------------------
(***************************************************************************)
(* code-gen.ts                                                             *)
(***************************************************************************)
\* GenerateTypeContext.  prefixRef is '' or undefined at every call of the
\* repository, so no prefix is ever put before a name.
Context(lib, addReadonlyWriteonlyPrefix, opts) ==
  [spec |-> lib, addReadonlyWriteonlyPrefix |-> addReadonlyWriteonlyPrefix, opts |-> opts]

GenerateTypeNodeOptions(readonly, writeonly, addReadonlyAndWriteonlyFilters) ==
  [readonly |-> readonly, writeonly |-> writeonly,
   addReadonlyAndWriteonlyFilters |-> addReadonlyAndWriteonlyFilters]

\* the default of generateTypeForSchema
DefaultOptions == GenerateTypeNodeOptions(TRUE, TRUE, TRUE)
\* populateOperationMethod, request body: the object literal spells the third
\* key addReaonlyAndWriteonlyFilters, so addReadonlyAndWriteonlyFilters is
\* undefined
RequestBodyOptions == GenerateTypeNodeOptions(FALSE, TRUE, FALSE)
\* populateOperationMethod, return type
ResponseOptions == GenerateTypeNodeOptions(TRUE, FALSE, FALSE)

nullableNodeType(node, nullable) ==
  IF ~nullable THEN node ELSE UnionType(<<node, NullLiteral>>)

\* Array.isArray(schemaForRef.enum)
IsEnumSchema(sch) == sch.kind = "primitive" /\ sch.hasEnum

\* a faulty ReferenceNode: an enumeration is wrapped like any other target
ReferenceNode_EnumWrapped(ref, schemaForRef, c) ==
  IF c.addReadonlyWriteonlyPrefix
  THEN TypeReference(IF c.opts.readonly THEN "WithoutWriteonly" ELSE "WithoutReadonly",
                     <<TypeReference(ref, <<>>)>>)
  ELSE TypeReference(ref, <<>>)

\* the $ref branch, after the target has been retrieved
ReferenceNode(ref, schemaForRef, c) ==
  IF c.addReadonlyWriteonlyPrefix /\ ~IsEnumSchema(schemaForRef)
  THEN TypeReference(IF c.opts.readonly THEN "WithoutWriteonly" ELSE "WithoutReadonly",
                     <<TypeReference(ref, <<>>)>>)
  ELSE TypeReference(ref, <<>>)

\* a faulty CompositeNode: the member list is always wrapped
CompositeNode_AlwaysWrapped(kind, types, nullable) ==
  IF kind = "allOf" THEN IntersectionType(types) ELSE UnionType(types)

\* the allOf / oneOf branches, after the members have been mapped
CompositeNode(kind, types, nullable) ==
  IF Len(types) < 2
  THEN nullableNodeType(IF types = <<>> THEN UndefinedNode ELSE types[1], nullable)
  ELSE IF kind = "allOf" THEN IntersectionType(types) ELSE UnionType(types)

\* a faulty LiteralSetNode: a single literal is wrapped in a union too
LiteralSetNode_AlwaysUnion(enumNodes) == UnionType(enumNodes)

\* the string branch: enumNodes.length === 1 ? enumNodes[0] : union
LiteralSetNode(enumNodes) ==
  IF Len(enumNodes) = 1 THEN enumNodes[1] ELSE UnionType(enumNodes)

\* the branches of a schema that is no reference, composite, array or object
PrimitiveNode(sch) ==
  IF sch.type = "boolean" THEN
    IF sch.hasEnum
    THEN UnionType([k \in 1..Len(sch.enum) |-> TypeReference(sch.enum[k], <<>>)])
    ELSE nullableNodeType(KeywordType("boolean"), sch.nullable)
  ELSE IF sch.type \in {"integer", "number"} THEN
    IF sch.hasEnum
    THEN nullableNodeType(
           UnionType([k \in 1..Len(sch.enum) |-> NumericLiteralType(sch.enum[k])]),
           sch.nullable)
    ELSE nullableNodeType(KeywordType("number"), sch.nullable)
  ELSE IF sch.format \in {"date", "date-time"} THEN
    nullableNodeType(TypeReference("Date", <<>>), sch.nullable)
  ELSE IF sch.type = "string" THEN
    IF sch.hasEnum
    THEN nullableNodeType(
           LiteralSetNode([k \in 1..Len(sch.enum) |-> StringLiteralType(sch.enum[k])]),
           sch.nullable)
    ELSE nullableNodeType(KeywordType("string"), sch.nullable)
  ELSE IF sch.type = "null" THEN NullLiteral
  ELSE nullableNodeType(KeywordType("unknown"), sch.nullable)

\* a faulty DroppedByView: each view tests the flag of the other view
DroppedByView_FlagsSwapped(prop, c) ==
  \/ ~c.opts.readonly /\ prop.writeOnly
  \/ ~c.opts.writeonly /\ prop.readOnly

\* generatePropertySignature: the two returns of null
DroppedByView(prop, c) ==
  \/ ~c.opts.readonly /\ prop.readOnly
  \/ ~c.opts.writeonly /\ prop.writeOnly

\* generatePropertySignature once the type of the property is known
SignatureOf(propName, prop, type, c, isRequired) ==
  IF IsThrow(type) THEN type
  ELSE IF DroppedByView(prop, c) THEN NoSignature
  ELSE PropertySignature(
         IF prop.readOnly THEN <<"readonly">> ELSE <<>>,
         propName,
         ~isRequired,
         IF c.opts.addReadonlyAndWriteonlyFilters /\ prop.readOnly
         THEN IntersectionType(<<ParenthesizedType(type), TypeReference("readonlyP", <<>>)>>)
         ELSE IF c.opts.addReadonlyAndWriteonlyFilters /\ prop.writeOnly
         THEN IntersectionType(<<ParenthesizedType(type), TypeReference("writeonlyP", <<>>)>>)
         ELSE type)

\* a faulty IsRequired: the required list is not read
IsRequired_Never(propName, required) == FALSE

\* the default of isRequired: schema.required?.includes(propName) === true
\* (an absent required list is the empty set)
IsRequired(propName, required) == propName \in required

RECURSIVE generateTypeNodeForSchema(_, _)
RECURSIVE generatePropertySignature(_, _, _, _)
RECURSIVE generateTypeLiteral(_, _)

generatePropertySignature(propName, prop, c, isRequired) ==
  SignatureOf(propName, prop, generateTypeNodeForSchema(prop.schema, c), c, isRequired)

generateTypeLiteral(sch, c) ==
  LET declared == [k \in 1..Len(sch.properties) |->
                     generatePropertySignature(sch.properties[k].name, sch.properties[k], c,
                                               IsRequired(sch.properties[k].name, sch.required))]
      additional == [k \in 1..Len(sch.additional) |->
                       generatePropertySignature("[key: string]", sch.additional[k], c, TRUE)]
      all == declared \o additional
  IN IF HasThrow(all) THEN FirstThrow(all)
     ELSE TypeLiteral(SelectSeq(all, LAMBDA sig : sig # NoSignature))

generateTypeNodeForSchema(sch, c) ==
  IF sch.kind = "ref" THEN
    LET schemaForRef == retrieveRef(sch.ref, c.spec)
    IN IF IsThrow(schemaForRef) THEN schemaForRef
       ELSE ReferenceNode(extractRef(sch.ref), schemaForRef, c)
  ELSE IF sch.kind \in {"allOf", "oneOf"} THEN
    LET types == [k \in 1..Len(sch.members) |-> generateTypeNodeForSchema(sch.members[k], c)]
    IN IF HasThrow(types) THEN FirstThrow(types)
       ELSE CompositeNode(sch.kind, types, sch.nullable)
  ELSE IF sch.kind = "array" THEN
    IF sch.items = <<>> THEN ArrayType(KeywordType("unknown"))
    ELSE LET elementType == generateTypeNodeForSchema(sch.items[1], c)
         IN IF IsThrow(elementType) THEN elementType ELSE ArrayType(elementType)
  ELSE IF sch.kind = "object" THEN generateTypeLiteral(sch, c)
  ELSE PrimitiveNode(sch)

\* generateTypeForSchema: the node is printed; the model keeps the node
generateTypeForSchema(sch, lib, addReadonlyWriteonlyPrefix, opts) ==
  generateTypeNodeForSchema(sch, Context(lib, addReadonlyWriteonlyPrefix, opts))

----------------------------------------------------------------------------
(***************************************************************************)
(* SpecNames: the names of one callable.                                   *)
(***************************************************************************)
IdAlphabet == {"a", "B", "_", "-", "1"}
TagAlphabet == {"a", "B", "-"}

\* the examples of the documentation
Text_userList == <<"u", "s", "e", "r", "L", "i", "s", "t">>
Text_User == <<"U", "s", "e", "r">>
Text_role_create == <<"r", "o", "l", "e", "-", "c", "r", "e", "a", "t", "e">>
Text_Role == <<"R", "o", "l", "e">>
Text_create == <<"c", "r", "e", "a", "t", "e">>
Text_List == <<"L", "i", "s", "t">>

NamesIdle ==
  /\ operationId = Unused /\ operationPath = Unused /\ operationMethod = "get"
  /\ rawTag = Unused /\ removeTagFromOperationId = FALSE
  /\ methodName = Unused /\ tag = Unused /\ getterName = Unused
PathIdle ==
  /\ pathParams = Unused /\ params = Unused /\ url = Unused
  /\ callOptions = Unused /\ config = Unused
MapperIdle == spec = Unused /\ schema = Unused /\ ctx = Unused /\ typeNode = Unused
LoopIdle == cursor = 0 /\ declarations = Unused /\ options = Unused
AnalyzeIdle == operation = Unused /\ analyses = Unused
GenIdle == document = Unused /\ classDeclarationMethods = Unused /\ previous = Unused

InitNames ==
  /\ task = "names" /\ pc = "start" /\ thrown = "none"
  /\ PathIdle /\ MapperIdle /\ LoopIdle /\ AnalyzeIdle /\ GenIdle
  /\ methodName = <<>> /\ tag = <<>> /\ getterName = <<>>
  /\ removeTagFromOperationId \in BOOLEAN
  /\ \/ \* a declared operation id
        /\ operationId \in StringsUpTo(IdAlphabet, MaxIdLen) \ {<<>>}
        /\ operationPath = <<"/", "a">> /\ operationMethod = "get"
        /\ rawTag \in StringsUpTo(TagAlphabet, MaxTagLen)
     \/ \* no operation id: it is made of the path and the method
        /\ operationId = <<>>
        /\ operationPath \in {<<"/", "a", "/">> \o s : s \in StringsUpTo(IdAlphabet \cup {"{", "}"}, MaxTagLen)}
        /\ operationMethod \in {HTTP_METHODS[k] : k \in 1..Len(HTTP_METHODS)}
        /\ rawTag \in {<<"a">>, Text_User}
     \/ \* the documented examples
        /\ operationPath = <<"/", "a">> /\ operationMethod = "get"
        /\ \E ex \in {<<Text_userList, Text_User>>, <<Text_role_create, Text_Role>>} :
             operationId = ex[1] /\ rawTag = ex[2]

\* analyzeOperationTag: methodName and tag of the analysis
AnalyzeNames ==
  /\ task = "names" /\ pc = "start"
  /\ methodName' = camelCase(OperationIdOf(operationId, operationPath, operationMethod))
  /\ tag' = pascalCase(rawTag)
  /\ pc' = "analyzed"
  /\ UNCHANGED <<task, thrown, operationId, operationPath, operationMethod, rawTag,
                 removeTagFromOperationId, getterName>>
  /\ UNCHANGED <<pathVars, mapperVars, loopVars, analyzeVars, genVars>>

\* generateApi: the key under which the callable is put in its tag object
GetterNameOf(remove, tg, name) ==
  IF remove THEN removeTagFromMethodName(tg, name) ELSE name

AddToGetter ==
  /\ task = "names" /\ pc = "analyzed"
  /\ getterName' = GetterNameOf(removeTagFromOperationId, tag, methodName)
  /\ pc' = "done"
  /\ UNCHANGED <<task, thrown, operationId, operationPath, operationMethod, rawTag,
                 removeTagFromOperationId, methodName, tag>>
  /\ UNCHANGED <<pathVars, mapperVars, loopVars, analyzeVars, genVars>>

NextNames == AnalyzeNames \/ AddToGetter

SpecNames == InitNames /\ [][NextNames]_vars

----------------------------------------------------------------------------
(***************************************************************************)
(* SpecMapper: one schema mapped under one context.                        *)
(***************************************************************************)
MaxDepth == 2   \* nesting of the enumerated schemas

\* a library with a self-referential object, an enumeration and an alias
PetSchema ==
  ObjectSchema(<<Prop("name", StringSchema, FALSE, FALSE),
                 Prop("owner", Ref("Pet"), FALSE, FALSE)>>, {"name"}, <<>>, FALSE)
ColorSchema == Primitive("string", "", TRUE, <<"red", "green">>, FALSE)
PetLibrary == <<Entry("Pet", PetSchema), Entry("Color", ColorSchema), Entry("Shade", Ref("Color"))>>

ScalarSchemas ==
  {StringSchema, Primitive("integer", "", FALSE, <<>>, TRUE), Ref("Pet"), Ref("Color")}

Flags == {<<FALSE, FALSE>>, <<TRUE, FALSE>>, <<FALSE, TRUE>>, <<TRUE, TRUE>>}

\* the schemas with one more level around a schema of S
Around(S) ==
  {ArraySchema(<<x>>, FALSE) : x \in S}
  \cup {ObjectSchema(<<Prop("p", x, f[1], f[2])>>, {}, <<>>, FALSE) : x \in S, f \in Flags}
  \cup {ObjectSchema(<<Prop("p", x, f[1], f[2]), Prop("q", StringSchema, FALSE, FALSE)>>,
                     {"q"}, <<>>, FALSE) : x \in S, f \in Flags}
  \cup {AllOf(<<x>>, n) : x \in S, n \in BOOLEAN}
  \cup {OneOf(<<x>>, n) : x \in S, n \in BOOLEAN}
  \cup {AllOf(<<x, StringSchema>>, n) : x \in S, n \in BOOLEAN}
  \cup {OneOf(<<x, StringSchema>>, n) : x \in S, n \in BOOLEAN}

RECURSIVE SchemasOfDepth(_)
SchemasOfDepth(d) ==
  IF d = 0 THEN ScalarSchemas ELSE ScalarSchemas \cup Around(SchemasOfDepth(d - 1))

\* the contexts of the repository: a declaration of the type library, a
\* request body and a response, the last two with and without the prefix
MapperContexts ==
  {[view |-> "declaration", addReadonlyWriteonlyPrefix |-> FALSE, opts |-> DefaultOptions]}
  \cup {[view |-> "input", addReadonlyWriteonlyPrefix |-> b, opts |-> RequestBodyOptions] : b \in BOOLEAN}
  \cup {[view |-> "output", addReadonlyWriteonlyPrefix |-> b, opts |-> ResponseOptions] : b \in BOOLEAN}

MaxEnum == 2   \* most values of an enumerated enumeration

\* the values an enumeration of a type can list, in a fixed order
EnumValuesOf(type) ==
  CASE type = "boolean" -> <<"true", "false", "true">>
    [] type \in {"integer", "number"} -> <<1, 2, 3>>
    [] OTHER -> <<"A", "B", "C">>

\* the schemas that are no reference, composite, array or object: every
\* type, with and without a date format, an enumeration and the nullable flag
PrimitiveSchemas ==
  {Primitive(t, f, FALSE, <<>>, n) :
     t \in {"string", "boolean", "integer", "number", "null", ""},
     f \in {"", "date", "date-time"}, n \in BOOLEAN}
  \cup {Primitive(t, f, TRUE, SubSeq(EnumValuesOf(t), 1, len), n) :
          t \in {"string", "boolean", "integer", "number"},
          f \in {"", "date"}, len \in 0..MaxEnum, n \in BOOLEAN}

\* a reference to each name of the library
ReferenceSchemas == {Ref(spec_name) : spec_name \in {"Pet", "Color", "Shade"}}

\* arrays and objects whose nullable flag is set
NullableSchemas ==
  {ArraySchema(<<x>>, TRUE) : x \in ScalarSchemas}
  \cup {ArraySchema(<<>>, TRUE),
        ObjectSchema(<<>>, {}, <<>>, TRUE),
        ObjectSchema(<<Prop("p", StringSchema, FALSE, FALSE)>>, {"p"}, <<>>, TRUE)}

InitMapper ==
  /\ task = "mapper" /\ pc = "start" /\ thrown = "none"
  /\ NamesIdle /\ PathIdle /\ LoopIdle /\ AnalyzeIdle /\ GenIdle
  /\ spec = PetLibrary
  /\ schema \in SchemasOfDepth(MaxDepth) \cup PrimitiveSchemas \cup ReferenceSchemas
                \cup NullableSchemas
  /\ ctx \in MapperContexts
  /\ typeNode = Unused

\* CodeGen.generateTypeForSchema(schema, spec, '', prefix, opts)
MapSchema ==
  /\ task = "mapper" /\ pc = "start"
  /\ typeNode' = generateTypeForSchema(schema, spec, ctx.addReadonlyWriteonlyPrefix, ctx.opts)
  /\ pc' = "done"
  /\ UNCHANGED <<task, thrown, spec, schema, ctx>>
  /\ UNCHANGED <<namesVars, pathVars, loopVars, analyzeVars, genVars>>

NextMapper == MapSchema

SpecMapper == InitMapper /\ [][NextMapper]_vars

----------------------------------------------------------------------------
(***************************************************************************)
(* SpecPath: the request path built by a generated callable.               *)
(* populateOperationMethod writes, for each declared path parameter in     *)
(* turn, .replace(/{name}/, String(params["name"])) after the quoted path. *)
(***************************************************************************)
StartsAt(sub, s, i) ==
  /\ i + Len(sub) - 1 <= Len(s)
  /\ SubSeq(s, i, i + Len(sub) - 1) = sub

\* the index of the first occurrence of sub in s at or after i, 0 if none
RECURSIVE IndexOfFrom(_, _, _)
IndexOfFrom(sub, s, i) ==
  IF i + Len(sub) - 1 > Len(s) THEN 0
  ELSE IF StartsAt(sub, s, i) THEN i
  ELSE IndexOfFrom(sub, s, i + 1)

\* the replacement text of String.prototype.replace: $$ is a dollar sign,
\* $& the match, $` the text before it and $' the text after it
RECURSIVE ExpandReplacement(_, _, _, _, _)
ExpandReplacement(r, i, matched, before, after) ==
  IF i > Len(r) THEN <<>>
  ELSE IF r[i] = "$" /\ i < Len(r) /\ r[i + 1] \in {"$", "&", "`", "'"}
       THEN (CASE r[i + 1] = "$" -> <<"$">>
               [] r[i + 1] = "&" -> matched
               [] r[i + 1] = "`" -> before
               [] r[i + 1] = "'" -> after)
            \o ExpandReplacement(r, i + 2, matched, before, after)
       ELSE <<r[i]>> \o ExpandReplacement(r, i + 1, matched, before, after)

\* the text of the placeholder of a parameter
Placeholder(name) == <<"{">> \o name \o <<"}">>

\* s.replace(/{name}/, value): the pattern has no g flag
ReplacePlaceholder(s, name, value) ==
  LET pat == Placeholder(name)
      i == IndexOfFrom(pat, s, 1)
  IN IF i = 0 THEN s
     ELSE LET before == SubSeq(s, 1, i - 1)
              after == SliceFrom(s, i + Len(pat))
          IN before \o ExpandReplacement(value, 1, pat, before, after) \o after

\* the chain of replace calls, one per path parameter, in declared order
RECURSIVE ReplaceEach(_, _, _, _)
ReplaceEach(s, names, values, k) ==
  IF k > Len(names) THEN s
  ELSE ReplaceEach(ReplacePlaceholder(s, names[k], values[names[k]]), names, values, k + 1)

UrlOf(path, names, values) == ReplaceEach(path, names, values, 1)

MaxSegments == 3   \* segments of an enumerated path template

ParamNames == {<<"a">>, <<"b">>}
ParamValues == {<<"5">>, <<"9">>, <<"{", "b", "}">>, <<"$", "&">>}
PathSegments == {<<"/", "u">>} \cup {<<"/">> \o Placeholder(n) : n \in ParamNames}

RECURSIVE TemplatesOf(_)
TemplatesOf(n) ==
  IF n = 0 THEN {<<>>}
  ELSE {t \o sg : t \in TemplatesOf(n - 1), sg \in PathSegments}

PathTemplates == UNION {TemplatesOf(n) : n \in 1..MaxSegments}

\* the parameter names that have a placeholder in the template
NamesIn(path) == {n \in ParamNames : IndexOfFrom(Placeholder(n), path, 1) # 0}

\* the orders in which a set of at most two names can be declared
OrdersOf(S) == {sq \in StringsUpTo(S, Cardinality(S)) :
                  Len(sq) = Cardinality(S) /\ {sq[k] : k \in 1..Len(sq)} = S}

InitPath ==
  /\ task = "path" /\ pc = "start" /\ thrown = "none"
  /\ MapperIdle /\ LoopIdle /\ AnalyzeIdle /\ GenIdle
  /\ operationId = Unused /\ operationMethod = "get" /\ rawTag = Unused
  /\ removeTagFromOperationId = FALSE
  /\ methodName = Unused /\ tag = Unused /\ getterName = Unused
  /\ operationPath \in PathTemplates
  /\ pathParams \in OrdersOf(NamesIn(operationPath))
  /\ params \in [ParamNames -> ParamValues]
  /\ url = Unused
  /\ callOptions = Unused /\ config = Unused

\* a call of the generated method: the path expression is evaluated
CallPath ==
  /\ task = "path" /\ pc = "start"
  /\ url' = UrlOf(operationPath, pathParams, params)
  /\ pc' = "done"
  /\ UNCHANGED <<task, thrown, namesVars, pathParams, params, callOptions, config>>
  /\ UNCHANGED <<mapperVars, loopVars, analyzeVars, genVars>>

NextPath == CallPath

SpecPath == InitPath /\ [][NextPath]_vars

\* the template with every placeholder of a params field replaced by the
\* text of that field, read once from left to right
RECURSIVE SubstituteAll(_, _, _)
SubstituteAll(path, values, i) ==
  IF i > Len(path) THEN <<>>
  ELSE IF \E n \in DOMAIN values : StartsAt(Placeholder(n), path, i)
       THEN LET n == CHOOSE x \in DOMAIN values : StartsAt(Placeholder(x), path, i)
            IN values[n] \o SubstituteAll(path, values, i + Len(Placeholder(n)))
       ELSE <<path[i]>> \o SubstituteAll(path, values, i + 1)

\* C3: the synthesized request path is the path template with every {name}
\* placeholder replaced by the text of the corresponding params field, for
\* every template (repeated placeholders, any declaration order) and every
\* parameter value (also one that contains the text of a placeholder).
C3_EveryPlaceholderSubstituted ==
  (task = "path" /\ pc = "done") => url = SubstituteAll(operationPath, params, 1)

----------------------------------------------------------------------------
(***************************************************************************)
(* Claims about the type mapper (SpecMapper)                               *)
(***************************************************************************)
MapperDone == task = "mapper" /\ pc = "done"

\* the paths of property names that lead to a property signature of a node
RECURSIVE TypePaths(_)
TypePaths(node) ==
  CASE node.kind = "TypeLiteral" ->
         UNION {{<<node.members[k].name>>}
                  \cup {<<node.members[k].name>> \o q : q \in TypePaths(node.members[k].type)}
                : k \in 1..Len(node.members)}
    [] node.kind = "ArrayType" -> TypePaths(node.elementType)
    [] node.kind \in {"UnionType", "IntersectionType"} ->
         UNION {TypePaths(node.types[k]) : k \in 1..Len(node.types)}
    [] node.kind = "ParenthesizedType" -> TypePaths(node.type)
    [] OTHER -> {}

\* the properties an object schema declares, additionalProperties last
PropertiesOf(sch) == sch.properties \o sch.additional
KeyOf(sch, k) == IF k <= Len(sch.properties) THEN sch.properties[k].name ELSE "[key: string]"

\* is a property kept by a view
KeptBy(prop, view) ==
  CASE view = "input" -> ~prop.readOnly
    [] view = "output" -> ~prop.writeOnly
    [] OTHER -> TRUE

\* the paths to the inline properties that a view keeps, all the properties
\* above them kept too; references are not followed
RECURSIVE KeptPaths(_, _)
KeptPaths(sch, view) ==
  CASE sch.kind = "object" ->
         UNION {IF KeptBy(PropertiesOf(sch)[k], view)
                THEN {<<KeyOf(sch, k)>>}
                       \cup {<<KeyOf(sch, k)>> \o q : q \in KeptPaths(PropertiesOf(sch)[k].schema, view)}
                ELSE {}
                : k \in 1..Len(PropertiesOf(sch))}
    [] sch.kind = "array" -> IF sch.items = <<>> THEN {} ELSE KeptPaths(sch.items[1], view)
    [] sch.kind \in {"allOf", "oneOf"} ->
         UNION {KeptPaths(sch.members[k], view) : k \in 1..Len(sch.members)}
    [] OTHER -> {}

\* the paths to the inline properties marked readOnly (or writeOnly)
RECURSIVE MarkedPaths(_, _)
MarkedPaths(sch, flag) ==
  CASE sch.kind = "object" ->
         UNION {(IF (flag = "readOnly" /\ PropertiesOf(sch)[k].readOnly)
                     \/ (flag = "writeOnly" /\ PropertiesOf(sch)[k].writeOnly)
                 THEN {<<KeyOf(sch, k)>>} ELSE {})
                  \cup {<<KeyOf(sch, k)>> \o q : q \in MarkedPaths(PropertiesOf(sch)[k].schema, flag)}
                : k \in 1..Len(PropertiesOf(sch))}
    [] sch.kind = "array" -> IF sch.items = <<>> THEN {} ELSE MarkedPaths(sch.items[1], flag)
    [] sch.kind \in {"allOf", "oneOf"} ->
         UNION {MarkedPaths(sch.members[k], flag) : k \in 1..Len(sch.members)}
    [] OTHER -> {}

\* the owning type of the property at a path is itself in the type
OwnerPresent(path, paths) == Len(path) = 1 \/ SubSeq(path, 1, Len(path) - 1) \in paths

\* C2 as stated: in the input view every inline property marked readOnly is
\* absent and every property marked writeOnly is present in its owning type;
\* in the output view every property marked writeOnly is absent and every
\* property marked readOnly is present; at every nesting depth.
C2_ViewSplitAsStated ==
  (MapperDone /\ ctx.view \in {"input", "output"}) =>
    LET got == TypePaths(typeNode)
        dropped == IF ctx.view = "input" THEN "readOnly" ELSE "writeOnly"
        shown == IF ctx.view = "input" THEN "writeOnly" ELSE "readOnly"
    IN /\ \A path \in MarkedPaths(schema, dropped) : path \notin got
       /\ \A path \in MarkedPaths(schema, shown) : OwnerPresent(path, got) => path \in got

\* C2 amended: in the input view an inline property is present in its owning
\* type exactly when it is not marked readOnly, and in the output view
\* exactly when it is not marked writeOnly, at every nesting depth; so a
\* property marked readOnly and not writeOnly is present in the output view,
\* one marked writeOnly and not readOnly in the input view, and one marked
\* both is in neither.
C2_ViewSplit ==
  (MapperDone /\ ctx.view \in {"input", "output"}) =>
    TypePaths(typeNode) = KeptPaths(schema, ctx.view)

\* C2 witness: the input view of a schema with a nested readOnly property:
\* the owning type is there and the property is not.
C2_Witness ==
  /\ MapperDone /\ ctx.view = "input"
  /\ \E path \in MarkedPaths(schema, "readOnly") :
       /\ Len(path) = 2
       /\ OwnerPresent(path, TypePaths(typeNode))
       /\ path \notin TypePaths(typeNode)

\* the types of the members of the composite that was mapped
MemberTypes ==
  [k \in 1..Len(schema.members) |->
     generateTypeForSchema(schema.members[k], spec, ctx.addReadonlyWriteonlyPrefix, ctx.opts)]

CompositeDone == MapperDone /\ schema.kind \in {"allOf", "oneOf"}

\* the ProductOf (all-of) or SumOf (one-of) of the member types, in order
Combined ==
  IF schema.kind = "allOf" THEN IntersectionType(MemberTypes) ELSE UnionType(MemberTypes)

\* C10 as stated: a composite with exactly one member maps to exactly the
\* type of that member; with two or more members to the ProductOf / SumOf
\* of the member types in member order.
C10_SingleMemberIsMemberType ==
  CompositeDone =>
    typeNode = (IF Len(schema.members) = 1 THEN MemberTypes[1] ELSE Combined)

\* C10 amended: a composite with exactly one member maps to the type of
\* that member, made nullable (member | null) when the composite's own
\* nullable flag is set, with no ProductOf / SumOf of the member list; with
\* two or more members it maps to the ProductOf / SumOf of the member types
\* in member order.
C10_SingleMemberDegrade ==
  CompositeDone =>
    typeNode = (IF Len(schema.members) = 1
                THEN (IF schema.nullable THEN UnionType(<<MemberTypes[1], NullLiteral>>)
                      ELSE MemberTypes[1])
                ELSE Combined)

\* C10 witness: an all-of with one object member has been mapped to the
\* type literal of the member itself.
C10_Witness ==
  /\ CompositeDone /\ schema.kind = "allOf" /\ Len(schema.members) = 1
  /\ schema.members[1].kind = "object"
  /\ typeNode.kind = "TypeLiteral"

PrimitiveDone == MapperDone /\ schema.kind = "primitive"
DateFormats == {"date", "date-time"}

\* the literals of the enumeration of the mapped schema, in declared order
StringLiterals == [k \in 1..Len(schema.enum) |-> StringLiteralType(schema.enum[k])]

\* what a type becomes under the nullable flag of the mapped schema
UnderNullable(node) == IF schema.nullable THEN UnionType(<<node, NullLiteral>>) ELSE node

\* C11: a string schema (no date format) with an enumeration of n >= 2
\* values maps to the union of exactly those n literals in declared order,
\* and with one value to that single literal, never to a one-member union
\* (the result is made nullable when the schema is marked nullable).
C11_EnumerationCollapse ==
  (PrimitiveDone /\ schema.type = "string" /\ schema.format \notin DateFormats
     /\ schema.hasEnum /\ Len(schema.enum) >= 1) =>
    /\ typeNode = UnderNullable(IF Len(schema.enum) = 1 THEN StringLiterals[1]
                                ELSE UnionType(StringLiterals))
    /\ ~(typeNode.kind = "UnionType" /\ Len(typeNode.types) = 1)

\* C11 witness: a string enumeration of one value has been mapped to the
\* single literal.
C11_Witness ==
  /\ PrimitiveDone /\ schema.type = "string" /\ schema.format = "" /\ schema.hasEnum
  /\ ~schema.nullable
  /\ Len(schema.enum) = 1
  /\ typeNode = StringLiteralType("A")

\* a type of the shape  T | null
IsNullable(node) ==
  node.kind = "UnionType" /\ Len(node.types) = 2 /\ node.types[2] = NullLiteral

\* C12 as stated: a boolean, integer or number schema maps to a type
\* wrapped in Nullable exactly when its nullable flag is set, with an
\* enumeration and without one; without an enumeration the wrapped type is
\* the primitive of the schema.
C12_NullableExactlyWhenFlagged ==
  (PrimitiveDone /\ schema.type \in {"boolean", "integer", "number"}) =>
    /\ IsNullable(typeNode) <=> schema.nullable
    /\ ~schema.hasEnum =>
         typeNode = UnderNullable(KeywordType(IF schema.type = "boolean" THEN "boolean"
                                              ELSE "number"))

----------------------------------------------------------------------------
(***************************************************************************)
(* Claims about names (SpecNames)                                          *)
(***************************************************************************)
NamesAnalyzed == task = "names" /\ pc \in {"analyzed", "done"}
NamesDone == task = "names" /\ pc = "done"

\* C6: for every operation identifier (declared or synthesized) and every
\* raw tag, the derived method name and tag name are valid identifiers: only
\* letters, digits, underscore and $, not empty, no leading digit.
C6_NamesAreIdentifiers ==
  NamesAnalyzed => isSafeIdentifier(methodName) /\ isSafeIdentifier(tag)

\* two characters that are equal up to the case of a letter
SameIgnoringCase(a, b) == toUpperCase(a) = toUpperCase(b)

OccursAt(t, s, i) ==
  /\ i >= 1 /\ i + Len(t) - 1 <= Len(s)
  /\ \A k \in 1..Len(t) : SameIgnoringCase(s[i + k - 1], t[k])

Occurs(t, s) == \E i \in 1..Len(s) : OccursAt(t, s, i)

FirstOccurrence(t, s) ==
  CHOOSE i \in 1..Len(s) : OccursAt(t, s, i) /\ \A j \in 1..(i - 1) : ~OccursAt(t, s, j)

\* s with the occurrences of the text t removed, leftmost first
RECURSIVE WithoutTagText(_, _)
WithoutTagText(t, s) ==
  IF t = <<>> \/ ~Occurs(t, s) THEN s
  ELSE LET i == FirstOccurrence(t, s)
       IN SubSeq(s, 1, i - 1) \o WithoutTagText(t, SliceFrom(s, i + Len(t)))

\* s with the occurrences of t removed, each with the underscore after it
RECURSIVE WithoutTagAndUnderscore(_, _)
WithoutTagAndUnderscore(t, s) ==
  IF t = <<>> THEN SelectSeq(s, LAMBDA c : c # "_")
  ELSE IF ~Occurs(t, s) THEN s
  ELSE LET i == FirstOccurrence(t, s)
           rest == SliceFrom(s, i + Len(t))
           after == IF rest # <<>> /\ rest[1] = "_" THEN Tail(rest) ELSE rest
       IN SubSeq(s, 1, i - 1) \o WithoutTagAndUnderscore(t, after)

\* C8 as stated: with removeTagFromOperationId the exposed name is the method
\* name with every case-insensitive occurrence of the tag text removed, and
\* nothing else.
C8_OnlyTagTextRemoved ==
  (NamesDone /\ removeTagFromOperationId) => getterName = WithoutTagText(tag, methodName)

\* C8 amended: the exposed name is the method name with every
\* case-insensitive occurrence of the tag text removed together with one
\* underscore directly after it (one pass from the left); userList under
\* tag User is exposed as List; without the option the name is kept.
C8_TagAndUnderscoreRemoved ==
  NamesDone =>
    /\ removeTagFromOperationId => getterName = WithoutTagAndUnderscore(tag, methodName)
    /\ ~removeTagFromOperationId => getterName = methodName
    /\ (removeTagFromOperationId /\ operationId = Text_userList /\ rawTag = Text_User)
         => getterName = Text_List

\* C8 witness: a tag that occurs in the method name with an underscore after
\* it has been removed from the exposed name.
C8_Witness ==
  /\ NamesDone /\ removeTagFromOperationId /\ tag # <<>>
  /\ \E i \in 1..Len(methodName) :
       /\ OccursAt(tag, methodName, i)
       /\ i + Len(tag) <= Len(methodName) /\ methodName[i + Len(tag)] = "_"
  /\ Len(getterName) < Len(methodName) - Len(tag)

\* C9: with removeTagFromOperationId, operation id role-create with tag Role
\* is exposed as create (reachable as Role.create).
C9_RoleCreateExposedAsCreate ==
  (NamesDone /\ removeTagFromOperationId /\ operationId = Text_role_create
     /\ rawTag = Text_Role)
    => (tag = Text_Role /\ getterName = Text_create)

----------------------------------------------------------------------------
(***************************************************************************)
(* SpecTypes: generateTypes over a schema library.                         *)
(***************************************************************************)
TypeAlias(name, type) == [kind |-> "typeAlias", name |-> name, type |-> type]
EnumDeclaration(name, members) == [kind |-> "enum", name |-> name, members |-> members]

\* addReadonlyWriteonlyModifiers: the aliases of the projection helpers
ModifierAliases ==
  <<"readonlyP", "writeonlyP", "Primitive", "PropsWithoutReadonly", "WithoutReadonly",
    "PropsWithoutWriteonly", "WithoutWriteonly">>
addReadonlyWriteonlyModifiers ==
  [k \in 1..Len(ModifierAliases) |-> TypeAlias(ModifierAliases[k], [kind |-> "helper"])]

\* 'enum' in schema && schema.enum
HasEnum(sch) == sch.kind = "primitive" /\ sch.hasEnum
\* typeof schema.enum[0] === 'number': the values of an enumeration of the
\* model are numbers exactly when its type is integer or number
IsNumberEnum(sch) == sch.type \in {"integer", "number"}

\* val.toUpperCase() is a function of strings only: the values of an
\* enumeration of the model are booleans exactly when its type is boolean
HasUpperCase(sch) == sch.type # "boolean"

\* the declaration generateTypes adds for one entry, or the exception raised
\* while its type or its members are generated
DeclarationOf(name, sch, lib) ==
  IF HasEnum(sch) THEN
    IF IsNumberEnum(sch)
    THEN TypeAlias(makeNameSafeForIdentifier(name),
                   IF Len(sch.enum) > 1
                   THEN UnionType([k \in 1..Len(sch.enum) |-> NumericLiteralType(sch.enum[k])])
                   ELSE NumericLiteralType(sch.enum[1]))
    ELSE IF sch.enum # <<>> /\ ~HasUpperCase(sch) THEN Throw("TypeError")
    ELSE EnumDeclaration(makeNameSafeForIdentifier(name), sch.enum)
  ELSE LET type == generateTypeForSchema(sch, lib, FALSE, DefaultOptions)
       IN IF IsThrow(type) THEN type ELSE TypeAlias(makeNameSafeForIdentifier(name), type)

TypeNames == <<"A", "B", "C">>

\* what a named schema of the enumerated libraries can be
NamedSchemas ==
  {StringSchema, ColorSchema, Primitive("integer", "", TRUE, <<1, 2>>, FALSE),
   Primitive("boolean", "", TRUE, <<"true">>, FALSE)}
  \cup {Ref(n) : n \in {"A", "B", "C", "Missing"}}
  \cup {ObjectSchema(<<Prop("next", Ref(n), FALSE, FALSE)>>, {}, <<>>, FALSE) : n \in {"A", "B", "Missing"}}
  \cup {ArraySchema(<<Ref("A")>>, FALSE), AllOf(<<Ref("C")>>, FALSE)}

InitTypes ==
  /\ task = "types" /\ pc = "start" /\ thrown = "none"
  /\ NamesIdle /\ PathIdle /\ AnalyzeIdle /\ GenIdle
  /\ \E a \in NamedSchemas, b \in NamedSchemas, c \in NamedSchemas :
       spec = <<Entry("A", a), Entry("B", b), Entry("C", c)>>
  /\ schema = Unused /\ ctx = Unused /\ typeNode = Unused
  /\ options \in {[addReadonlyWriteonlyModifiers |-> b] : b \in BOOLEAN}
  /\ cursor = 0 /\ declarations = <<>>

\* generateTypes before its loop
AddModifiers ==
  /\ task = "types" /\ pc = "start"
  /\ declarations' = (IF options.addReadonlyWriteonlyModifiers
                      THEN addReadonlyWriteonlyModifiers ELSE <<>>)
  /\ pc' = "loop"
  /\ UNCHANGED <<task, thrown, cursor, options>>
  /\ UNCHANGED <<namesVars, pathVars, mapperVars, analyzeVars, genVars>>

\* one turn of the loop of generateTypes.  An exception raised by the type
\* mapper is caught nowhere: it leaves generateTypes and generate, and no
\* file is written.
AddType ==
  /\ task = "types" /\ pc = "loop" /\ cursor < Len(spec)
  /\ LET entry == spec[cursor + 1]
         declaration == DeclarationOf(entry.name, entry.schema, spec)
     IN IF IsThrow(declaration)
        THEN /\ thrown' = declaration.error
             /\ pc' = "thrown"
             /\ UNCHANGED <<cursor, declarations>>
        ELSE /\ declarations' = Append(declarations, declaration)
             /\ cursor' = cursor + 1
             /\ UNCHANGED <<pc, thrown>>
  /\ UNCHANGED <<task, options>>
  /\ UNCHANGED <<namesVars, pathVars, mapperVars, analyzeVars, genVars>>

\* the loop of generateTypes is over
TypesDone ==
  /\ task = "types" /\ pc = "loop" /\ cursor = Len(spec)
  /\ pc' = "done"
  /\ UNCHANGED <<task, thrown, loopVars>>
  /\ UNCHANGED <<namesVars, pathVars, mapperVars, analyzeVars, genVars>>

NextTypes == AddModifiers \/ AddType \/ TypesDone
SpecTypes == InitTypes /\ [][NextTypes]_vars

(***************************************************************************)
(* Claims about references (SpecTypes)                                     *)
(***************************************************************************)
TypesEnded == task = "types" /\ pc \in {"done", "thrown"}

\* where the chain of references that starts at a name ends: at a name that
\* is not in the library, back on a name it has been through, or at a
\* schema that is no reference
RECURSIVE ChainEnd(_, _, _)
ChainEnd(name, lib, seen) ==
  IF ~HasSchema(lib, name) THEN "missing"
  ELSE IF name \in seen THEN "cycle"
  ELSE IF SchemaNamed(lib, name).kind # "ref" THEN "concrete"
  ELSE ChainEnd(SchemaNamed(lib, name).ref, lib, seen \cup {name})

\* the names a schema refers to, itself or in its inline parts
RECURSIVE RefsOf(_)
RefsOf(sch) ==
  CASE sch.kind = "ref" -> {sch.ref}
    [] sch.kind = "object" ->
         UNION {RefsOf(PropertiesOf(sch)[k].schema) : k \in 1..Len(PropertiesOf(sch))}
    [] sch.kind = "array" -> IF sch.items = <<>> THEN {} ELSE RefsOf(sch.items[1])
    [] sch.kind \in {"allOf", "oneOf"} ->
         UNION {RefsOf(sch.members[k]) : k \in 1..Len(sch.members)}
    [] OTHER -> {}

LibraryRefs == UNION {RefsOf(spec[k].schema) : k \in 1..Len(spec)}
Unresolved(k) == \E n \in RefsOf(spec[k].schema) : ChainEnd(n, spec, {}) = "missing"
Circular(k) == \E n \in RefsOf(spec[k].schema) : ChainEnd(n, spec, {}) = "cycle"
Declared(name) == \E d \in 1..Len(declarations) : declarations[d].name = name
DeclarationNamed(name) ==
  declarations[CHOOSE d \in 1..Len(declarations) : declarations[d].name = name]

\* C1 as stated: over every library in which each referenced name exists,
\* generating the types never exhausts the stack, and each named schema that
\* is a Reference is declared as the name of its target.
C1_ReferenceMapsToName ==
  (TypesEnded /\ \A n \in LibraryRefs : HasSchema(spec, n)) =>
    /\ thrown = "none"
    /\ \A k \in 1..Len(spec) :
         spec[k].schema.kind = "ref" =>
           /\ Declared(spec[k].name)
           /\ DeclarationNamed(spec[k].name).type = TypeReference(spec[k].schema.ref, <<>>)

\* C7 as stated: a missing target is reported as UnresolvedReferenceError
\* and a chain of references that cycles as CircularReferenceError, and
\* every schema that has neither trouble is declared when the run ends.
C7_FailureAbortsOnlyTheType ==
  TypesEnded =>
    /\ (\E k \in 1..Len(spec) : Unresolved(k) \/ Circular(k)) =>
         thrown \in {"UnresolvedReferenceError", "CircularReferenceError"}
    /\ \A k \in 1..Len(spec) :
         ~(Unresolved(k) \/ Circular(k)) => Declared(spec[k].name)

\* the declarations of the file after the aliases of the projection helpers
OwnDeclarations ==
  IF options.addReadonlyWriteonlyModifiers
  THEN SubSeq(declarations, Len(ModifierAliases) + 1, Len(declarations))
  ELSE declarations

\* C17 as stated: when generateTypes ends, the library holds one declaration
\* for each named schema of the document, in document order: an enumeration
\* declaration when the schema carries an enumeration, otherwise an alias
\* of the name bound to the mapped type of the schema.
C17_OneDeclarationPerSchema ==
  TypesEnded =>
    /\ Len(OwnDeclarations) = Len(spec)
    /\ \A k \in 1..Len(spec) :
         /\ OwnDeclarations[k].name = makeNameSafeForIdentifier(spec[k].name)
         /\ IF HasEnum(spec[k].schema)
            THEN OwnDeclarations[k].kind = "enum"
            ELSE OwnDeclarations[k] =
                   TypeAlias(makeNameSafeForIdentifier(spec[k].name),
                             generateTypeForSchema(spec[k].schema, spec, FALSE, DefaultOptions))

----------------------------------------------------------------------------
(***************************************************************************)
(* project-analyzer.ts: the analysis of one operation.                     *)
(*                                                                         *)
(* An operation is a record: tags (texts), responses (the entries of the   *)
(* response section as the document declares them, each a status key and   *)
(* a content), requestBody (a sequence of at most one: a request body     *)
(* object with its content, or a reference object) and parameters.  A      *)
(* content is the sequence of its media types, each with at most one       *)
(* schema; an absent content is the empty sequence.                        *)
(***************************************************************************)
METHODS_WITH_DATA == {"post", "patch", "put"}

MediaType(mime, sch) == [mime |-> mime, schema |-> sch]
Response(status, content) == [status |-> status, content |-> content]
RequestBody(content) == [kind |-> "requestBody", content |-> content]
Parameter(name, in, sch, required) ==
  [name |-> name, in |-> in, schema |-> sch, required |-> required]
Operation(id, tags, responses, requestBody, parameters) ==
  [operationId |-> id, tags |-> tags, responses |-> responses,
   requestBody |-> requestBody, parameters |-> parameters]

Text_default == <<"d", "e", "f", "a", "u", "l", "t">>

\* the keys of an object that are array indices (canonical integers), with
\* their value; the status keys "default" and "2XX" are not
ArrayIndexKeys == {"200", "201", "404", "500"}
KeyNumber(key) ==
  CASE key = "200" -> 200
    [] key = "201" -> 201
    [] key = "404" -> 404
    [] key = "500" -> 500

RECURSIVE SortByKeyNumber(_)
SortByKeyNumber(entries) ==
  IF entries = <<>> THEN <<>>
  ELSE LET m == CHOOSE k \in 1..Len(entries) :
                  \A j \in 1..Len(entries) : KeyNumber(entries[k].status) <= KeyNumber(entries[j].status)
       IN <<entries[m]>> \o SortByKeyNumber(SubSeq(entries, 1, m - 1) \o SubSeq(entries, m + 1, Len(entries)))

\* a faulty ObjectEntries: the entries in the order of the document
ObjectEntries_AsDeclared(entries) == entries

\* Object.entries of an object whose properties were created in the order
\* of the document: the array-index keys in ascending order, then the other
\* keys in the order of their creation
ObjectEntries(entries) ==
  SortByKeyNumber(SelectSeq(entries, LAMBDA e : e.status \in ArrayIndexKeys))
    \o SelectSeq(entries, LAMBDA e : e.status \notin ArrayIndexKeys)

\* the names found by getSchemas, or the exception it raises
Names(names) == [kind |-> "names", names |-> names]

RECURSIVE Flatten(_)
Flatten(results) ==
  IF results = <<>> THEN <<>> ELSE Head(results).names \o Flatten(Tail(results))

Gathered(results) ==
  IF HasThrow(results) THEN FirstThrow(results) ELSE Names(Flatten(results))

\* getSchemas.  What it returns (a name, a list of names, null, undefined)
\* is flattened by its callers; the model keeps the list of names.  An
\* array without items makes '$ref' in undefined, a TypeError.
RECURSIVE getSchema(_)
getSchema(sch) ==
  IF sch.kind = "ref" THEN Names(<<extractRef(sch.ref)>>)
  ELSE IF sch.kind \in {"allOf", "oneOf"} THEN
    Gathered([k \in 1..Len(sch.members) |-> getSchema(sch.members[k])])
  ELSE IF sch.kind = "array" THEN
    IF sch.items = <<>> THEN Throw("TypeError") ELSE getSchema(sch.items[1])
  ELSE IF sch.kind = "object" THEN
    Gathered([k \in 1..Len(sch.properties) |-> getSchema(sch.properties[k].schema)])
  ELSE Names(<<>>)

getSchemas(sch) == getSchema(sch)

\* referencedTypes.set(name, ...) for each name: a Map keeps the order in
\* which its keys were first set; the empty name is skipped
RECURSIVE SetEach(_, _)
SetEach(keys, names) ==
  IF names = <<>> THEN keys
  ELSE SetEach(IF Head(names) = "" \/ \E k \in 1..Len(keys) : keys[k] = Head(names)
               THEN keys ELSE Append(keys, Head(names)),
               Tail(names))

\* trackReferences(schema, referencedTypes, spec): the keys of
\* referencedTypes afterwards, or the exception of getSchemas
trackReferences(sch, referencedTypes) ==
  LET found == getSchemas(sch)
  IN IF IsThrow(found) THEN found ELSE Names(SetEach(referencedTypes, found.names))

\* trackReferences of each schema of a list in turn; a member of the list
\* that is an exception is raised when its turn comes
RECURSIVE TrackEach(_, _)
TrackEach(schemas, referencedTypes) ==
  IF schemas = <<>> THEN Names(referencedTypes)
  ELSE IF IsThrow(Head(schemas)) THEN Head(schemas)
  ELSE LET tracked == trackReferences(Head(schemas), referencedTypes)
       IN IF IsThrow(tracked) THEN tracked ELSE TrackEach(Tail(schemas), tracked.names)

\* the loop over operation.parameters: the target of each parameter whose
\* schema is a reference, as retrieveRef gives it
ParamTargets(parameters, lib) ==
  LET kept == SelectSeq(parameters, LAMBDA q : q.in # "" /\ q.schema # <<>> /\ q.schema[1].kind = "ref")
  IN [k \in 1..Len(kept) |-> retrieveRef(kept[k].schema[1].ref, lib)]

\* obj[key] = value on an object kept as the sequence of its entries: a new
\* key goes last, a key that is there keeps its place and takes the value.
\* No key of the model is an array index.
Put(obj, key, value) ==
  IF \E k \in 1..Len(obj) : obj[k].key = key
  THEN [k \in 1..Len(obj) |-> IF obj[k].key = key THEN [key |-> key, value |-> value] ELSE obj[k]]
  ELSE Append(obj, [key |-> key, value |-> value])

RECURSIVE PutEach(_, _)
PutEach(obj, entries) ==
  IF entries = <<>> THEN obj
  ELSE PutEach(Put(obj, Head(entries).key, Head(entries).value), Tail(entries))

NullAnalysis == [kind |-> "null"]

\* operation.requestBody?.content['application/json']?.schema: a reference
\* object has no content, and reading a key of undefined raises TypeError
requestBodySchemaOf(op) ==
  IF op.requestBody = <<>> THEN Names(<<>>)
  ELSE IF op.requestBody[1].kind = "ref" THEN Throw("TypeError")
  ELSE LET json == SelectSeq(op.requestBody[1].content,
                             LAMBDA m : m.mime = "application/json")
       IN Names(IF json = <<>> THEN <<>> ELSE json[1].schema)

\* a faulty NoResponseEntry: every operation is taken to have none
NoResponseEntry_Always(responses) == TRUE

\* typeof responses === 'undefined' || Object.keys(responses).length === 0
NoResponseEntry(responses) == responses = <<>>

\* analyzeOperationTag
analyzeOperationTag(op, lib, id, path, method, rawTg) ==
  IF NoResponseEntry(op.responses) THEN NullAnalysis
  ELSE
    LET successResponseObject == ObjectEntries(op.responses)[1]
        content == successResponseObject.content
        successResponse == SelectSeq(content, LAMBDA m : m.mime = "application/json")
        isMethodWithData == method \in METHODS_WITH_DATA
        declared == IF isMethodWithData THEN requestBodySchemaOf(op) ELSE Names(<<>>)
        requestBodySchema == declared.names
        successReturnSchema == IF successResponse = <<>> THEN <<>> ELSE successResponse[1].schema
        located == SelectSeq(op.parameters, LAMBDA q : q.in # "")
        referenced == TrackEach(requestBodySchema \o successReturnSchema
                                  \o ParamTargets(op.parameters, lib), <<>>)
        pathParams_ == SelectSeq(located, LAMBDA q : q.in = "path")
        headerParams == SelectSeq(located, LAMBDA q : q.in = "header")
        queryParams == SelectSeq(located, LAMBDA q : q.in = "query")
    IN IF IsThrow(declared) THEN declared
       ELSE IF IsThrow(referenced) THEN referenced
       ELSE [kind |-> "analysis",
             rawTag |-> rawTg,
             tag |-> pascalCase(rawTg),
             operation |-> op,
             operationId |-> id,
             operationPath |-> path,
             operationMethod |-> method,
             methodName |-> camelCase(id),
             pathParams |-> pathParams_,
             headerParams |-> headerParams,
             queryParams |-> queryParams,
             params |-> located,
             hasPathParams |-> pathParams_ # <<>>,
             hasHeaderParams |-> headerParams # <<>>,
             hasQueryParams |-> queryParams # <<>>,
             hasParams |-> pathParams_ # <<>> \/ headerParams # <<>> \/ queryParams # <<>>,
             isMethodWithData |-> isMethodWithData,
             hasRequestBody |-> requestBodySchema # <<>>,
             requestBodySchema |-> requestBodySchema,
             successReturnSchema |-> successReturnSchema,
             successReturnMimeType |-> IF content = <<>> THEN <<>> ELSE <<content[1].mime>>,
             paramSchemas |-> PutEach(<<>>, [k \in 1..Len(located) |->
                                [key |-> located[k].name, value |-> located[k].schema]]),
             referencedTypes |-> referenced.names]

\* a faulty TagsOf: no tag when none is declared
TagsOf_NoDefault(op) == op.tags

\* operation.tags && operation.tags.length > 0 ? operation.tags : ['default']
\* (tags absent and tags empty are both the empty sequence)
TagsOf(op) == IF op.tags # <<>> THEN op.tags ELSE <<Text_default>>

\* .filter((v) => !!v)
WithoutNulls(results) == SelectSeq(results, LAMBDA a : a # NullAnalysis)

\* analyzeOperation: one analysis for each tag, "default" when there is no
\* tag; the tags that give null are left out
analyzeOperation(op, lib, id, path, method) ==
  LET tags == TagsOf(op)
      results == [k \in 1..Len(tags) |-> analyzeOperationTag(op, lib, id, path, method, tags[k])]
  IN IF HasThrow(results) THEN FirstThrow(results)
     ELSE Names(WithoutNulls(results))

(***************************************************************************)
(* SpecAnalyze: analyzeOperation on one operation.                         *)
(***************************************************************************)
MaxResponses == 2   \* most entries of an enumerated response section

Statuses == {"200", "404", "500", "default"}

\* the schema of a response, one for each status so that the entry the
\* analysis took can be told
SchemaOfStatus(status) ==
  CASE status = "200" -> Ref("Pet")
    [] status = "404" -> ObjectSchema(<<Prop("p", Ref("Color"), FALSE, FALSE)>>, {},
                                      <<Prop("[key: string]", Ref("Pet"), FALSE, FALSE)>>, FALSE)
    [] status = "500" -> ArraySchema(<<>>, FALSE)
    [] OTHER -> Ref("Color")

ContentsOf(status) ==
  {<<>>,
   <<MediaType("application/json", <<SchemaOfStatus(status)>>)>>,
   <<MediaType("text/plain", <<StringSchema>>),
     MediaType("application/json", <<SchemaOfStatus(status)>>)>>}

\* the response sections of at most n entries, no status twice
RECURSIVE ResponseSections(_)
ResponseSections(n) ==
  IF n = 0 THEN {<<>>}
  ELSE LET shorter == ResponseSections(n - 1)
       IN shorter \cup
          {Append(r, Response(st, c)) :
             r \in {x \in shorter : Len(x) = n - 1},
             st \in Statuses, c \in UNION {ContentsOf(x) : x \in Statuses}}

WellFormedSection(r) ==
  /\ \A j, k \in 1..Len(r) : j # k => r[j].status # r[k].status
  /\ \A k \in 1..Len(r) : r[k].content \in ContentsOf(r[k].status)

Text_id == <<"i", "d">>
Text_q == <<"q">>
Text_h == <<"h">>
Text_c == <<"c">>

RequestBodies ==
  {<<>>,
   <<RequestBody(<<MediaType("application/json", <<Ref("Pet")>>)>>)>>,
   <<RequestBody(<<MediaType("multipart/form-data", <<StringSchema>>)>>)>>,
   <<Ref("Body")>>}

ParameterLists ==
  {<<>>,
   <<Parameter(Text_id, "path", <<StringSchema>>, <<TRUE>>),
     Parameter(Text_q, "query", <<>>, <<FALSE>>)>>,
   <<Parameter(Text_h, "header", <<Ref("Shade")>>, <<TRUE>>),
     Parameter(Text_q, "", <<StringSchema>>, <<TRUE>>)>>}

InitAnalyze ==
  /\ task = "analyze" /\ pc = "start" /\ thrown = "none"
  /\ PathIdle /\ LoopIdle /\ GenIdle
  /\ operationId \in {Text_userList, <<"a">>}
  /\ operationPath = <<"/", "a">>
  /\ operationMethod \in {"get", "post"}
  /\ rawTag = Unused /\ removeTagFromOperationId = FALSE
  /\ methodName = Unused /\ tag = Unused /\ getterName = Unused
  /\ spec = PetLibrary /\ schema = Unused /\ ctx = Unused /\ typeNode = Unused
  /\ \E tags \in {<<>>, <<Text_User>>, <<Text_User, Text_Role>>, <<Text_default, Text_User>>},
        responses \in {r \in ResponseSections(MaxResponses) : WellFormedSection(r)},
        requestBody \in RequestBodies,
        parameters \in ParameterLists :
       operation = Operation(operationId, tags, responses, requestBody, parameters)
  /\ analyses = <<>>

\* analyzeOperation(operation, context)
AnalyzeOperation ==
  /\ task = "analyze" /\ pc = "start"
  /\ LET result == analyzeOperation(operation, spec, operationId, operationPath, operationMethod)
     IN IF IsThrow(result)
        THEN thrown' = result.error /\ pc' = "thrown" /\ UNCHANGED analyses
        ELSE analyses' = result.names /\ pc' = "done" /\ UNCHANGED thrown
  /\ UNCHANGED <<task, operation>>
  /\ UNCHANGED <<namesVars, pathVars, mapperVars, loopVars, genVars>>

NextAnalyze == AnalyzeOperation
SpecAnalyze == InitAnalyze /\ [][NextAnalyze]_vars

(***************************************************************************)
(* Claims about the success schema (SpecAnalyze)                           *)
(***************************************************************************)
AnalyzeDone == task = "analyze" /\ pc = "done" /\ operation.responses # <<>>

\* the application/json schema of the content of a response entry
JsonSchemaOf(entry) ==
  IF \E k \in 1..Len(entry.content) : entry.content[k].mime = "application/json"
  THEN entry.content[CHOOSE k \in 1..Len(entry.content) :
                       entry.content[k].mime = "application/json"].schema
  ELSE <<>>

\* the entry a program meets first when it goes through the response
\* section: the one of the least status number when a status is a number,
\* the first declared otherwise
FirstEnumerated(responses) ==
  IF \E k \in 1..Len(responses) : responses[k].status \in ArrayIndexKeys
  THEN responses[CHOOSE k \in 1..Len(responses) :
                   /\ responses[k].status \in ArrayIndexKeys
                   /\ \A j \in 1..Len(responses) :
                        responses[j].status \in ArrayIndexKeys =>
                          KeyNumber(responses[k].status) <= KeyNumber(responses[j].status)]
  ELSE responses[1]

\* C4 as stated: the success schema of every analysis of an operation is
\* the content schema of the response entry the document declares first,
\* whatever its status.
C4_FirstDeclaredWins ==
  AnalyzeDone =>
    \A k \in 1..Len(analyses) :
      analyses[k].successReturnSchema = JsonSchemaOf(operation.responses[1])

\* C4 amended: the success schema is the application/json content schema
\* of the first entry in the enumeration order of the response section:
\* numeric status keys in ascending order, then the other keys as declared;
\* it is absent when that entry has no application/json schema.
C4_FirstEnumeratedWins ==
  AnalyzeDone =>
    \A k \in 1..Len(analyses) :
      analyses[k].successReturnSchema = JsonSchemaOf(FirstEnumerated(operation.responses))

\* C4 witness: 404 is declared before 200, both with a schema, and the
\* analysis took the schema of 200.
C4_Witness ==
  /\ AnalyzeDone /\ Len(analyses) > 0
  /\ Len(operation.responses) = 2
  /\ operation.responses[1].status = "404" /\ operation.responses[2].status = "200"
  /\ JsonSchemaOf(operation.responses[1]) # <<>>
  /\ analyses[1].successReturnSchema = <<Ref("Pet")>>

----------------------------------------------------------------------------
(***************************************************************************)
(* api.ts: generateApi.                                                    *)
(*                                                                         *)
(* The document is the sequence of the operations of spec.paths in the     *)
(* order generateApi visits them (path by path, and in a path by           *)
(* HTTP_METHODS), each with its path and its method.                       *)
(***************************************************************************)
DocumentEntry(path, method, op) == [path |-> path, method |-> method, operation |-> op]

\* analyzePathOperations over the paths of the document: the analyses in
\* visiting order, or the exception raised
RECURSIVE PathsAnalysis(_, _)
PathsAnalysis(doc, lib) ==
  IF doc = <<>> THEN Names(<<>>)
  ELSE LET e == Head(doc)
           first == analyzeOperation(e.operation, lib,
                                     OperationIdOf(e.operation.operationId, e.path, e.method),
                                     e.path, e.method)
       IN IF IsThrow(first) THEN first
          ELSE LET rest == PathsAnalysis(Tail(doc), lib)
               IN IF IsThrow(rest) THEN rest ELSE Names(first.names \o rest.names)

RECURSIVE getAllReferencedTypesFrom(_, _)
getAllReferencedTypesFrom(pathsAnalysis, referencedTypeNames) ==
  IF pathsAnalysis = <<>> THEN referencedTypeNames
  ELSE getAllReferencedTypesFrom(Tail(pathsAnalysis),
                                 SetEach(referencedTypeNames, Head(pathsAnalysis).referencedTypes))

getAllReferencedTypes(pathsAnalysis) == getAllReferencedTypesFrom(pathsAnalysis, <<>>)

\* the names of a list of parameters
ParameterNames(parameters) == [k \in 1..Len(parameters) |-> parameters[k].name]

\* CodeGen.generatePickString: '{}', or pick(params, ...) of the names
generatePickString(parameters) ==
  IF parameters = <<>> THEN [kind |-> "{}"]
  ELSE [kind |-> "pick", names |-> ParameterNames(parameters)]

\* the type of each property of the params parameter
ParamType(a, q, lib) ==
  LET paramSchema == (CHOOSE e \in {a.paramSchemas[k] : k \in 1..Len(a.paramSchemas)} :
                        e.key = q.name).value
  IN IF paramSchema = <<>> THEN KeywordType("unknown")
     ELSE generateTypeForSchema(paramSchema[1], lib, FALSE, DefaultOptions)

\* a faulty QuestionToken: every field of params is optional
QuestionToken_Always(param) == TRUE

\* param.required === false ? '?' : '' (required is a sequence of at most
\* one boolean, empty when the parameter does not declare it)
QuestionToken(param) == param.required = <<FALSE>>

MethodParameter(name, type, hasQuestionToken) ==
  [name |-> name, type |-> type, hasQuestionToken |-> hasQuestionToken]

\* a faulty OptionsParameter: the options are required
OptionsParameter_Required ==
  MethodParameter("options", TypeReference("AxiosRequestConfig", <<>>), FALSE)

\* the axios config options parameter: options?: AxiosRequestConfig
OptionsParameter ==
  MethodParameter("options", TypeReference("AxiosRequestConfig", <<>>), TRUE)

\* a faulty DataArgument: data is passed whether a body schema was found or not
DataArgument_NoPlaceholder(a) == IF ~a.isMethodWithData THEN "" ELSE "data"

\* what the call passes after the endpoint: nothing, data or {}
DataArgument(a) ==
  IF ~a.isMethodWithData THEN "" ELSE IF a.hasRequestBody THEN "data" ELSE "{}"

\* populateOperationMethod: the private method of one analysis, or the
\* exception raised while one of its types is generated
populateOperationMethod(a, lib, opts) ==
  LET paramTypes == IF a.hasParams
                    THEN [k \in 1..Len(a.params) |-> ParamType(a, a.params[k], lib)]
                    ELSE <<>>
      paramsProperties ==
        PutEach(<<>>, [k \in 1..Len(paramTypes) |->
                         [key |-> [name |-> a.params[k].name, questionToken |-> QuestionToken(a.params[k])],
                          value |-> paramTypes[k]]])
      requestBodyType ==
        [k \in 1..Len(a.requestBodySchema) |->
           generateTypeForSchema(a.requestBodySchema[k], lib,
                                 opts.addReadonlyWriteonlyModifiers, RequestBodyOptions)]
      returnType ==
        [k \in 1..Len(a.successReturnSchema) |->
           generateTypeForSchema(a.successReturnSchema[k], lib,
                                 opts.addReadonlyWriteonlyModifiers, ResponseOptions)]
      types == paramTypes \o requestBodyType \o returnType
  IN IF HasThrow(types) THEN FirstThrow(types)
     ELSE [kind |-> "method",
           scope |-> "private",
           name |-> a.methodName,
           parameters |->
             (IF a.hasParams
              THEN <<MethodParameter("params", TypeLiteral(paramsProperties), FALSE)>> ELSE <<>>)
             \o [k \in 1..Len(requestBodyType) |-> MethodParameter("data", requestBodyType[k], FALSE)]
             \o <<OptionsParameter>>,
           call |-> a.operationMethod,
           returnType |-> returnType,
           path |-> a.operationPath,
           replaced |-> IF a.hasPathParams THEN ParameterNames(a.pathParams) ELSE <<>>,
           data |-> DataArgument(a),
           headers |-> IF a.hasHeaderParams THEN <<generatePickString(a.headerParams)>> ELSE <<>>,
           params |-> IF a.hasQueryParams THEN <<generatePickString(a.queryParams)>> ELSE <<>>]

\* what generateApi adds to the file before the operations
ApiPreamble(referencedTypes) ==
  <<[kind |-> "import", from |-> "axios", names |-> <<"AxiosInstance", "AxiosRequestConfig">>]>>
  \o (IF referencedTypes # <<>>
      THEN <<[kind |-> "import", from |-> "./definitions", names |-> referencedTypes]>> ELSE <<>>)
  \o <<[kind |-> "export", names |-> referencedTypes],
       [kind |-> "property", name |-> "axios"],
       [kind |-> "constructor"]>>

\* the object of a tag in classDeclarationMethods, {} when the tag is new
TagObject(methods, tg) ==
  IF \E k \in 1..Len(methods) : methods[k].key = tg
  THEN (CHOOSE e \in {methods[k] : k \in 1..Len(methods)} : e.key = tg).value
  ELSE <<>>

\* what generateApi adds to the file after the operations
ApiAccessors(methods, pathsAnalysis) ==
  [k \in 1..Len(methods) |->
     [kind |-> "getAccessor", name |-> pascalCase(methods[k].key), object |-> methods[k].value]]
  \o (IF \E k \in 1..Len(pathsAnalysis) :
           pathsAnalysis[k].hasHeaderParams \/ pathsAnalysis[k].hasQueryParams
      THEN <<[kind |-> "function", name |-> "pick"]>> ELSE <<>>)

(***************************************************************************)
(* SpecGen: generateApi over a document of two operations.                 *)
(***************************************************************************)
Text_user_list == <<"u", "s", "e", "r", "-", "l", "i", "s", "t">>
Text_list == <<"l", "i", "s", "t">>

GenResponses ==
  {<<>>,
   <<Response("200", <<MediaType("application/json", <<Ref("Pet")>>)>>)>>,
   <<Response("200", <<MediaType("application/json", <<Ref("Missing")>>)>>)>>}

GenParameterLists ==
  {<<>>,
   <<Parameter(Text_id, "path", <<StringSchema>>, <<TRUE>>),
     Parameter(Text_q, "query", <<>>, <<FALSE>>),
     Parameter(Text_h, "header", <<StringSchema>>, <<>>),
     Parameter(Text_c, "cookie", <<StringSchema>>, <<TRUE>>)>>,
   <<Parameter(Text_c, "cookie", <<StringSchema>>, <<TRUE>>),
     Parameter(Text_q, "", <<>>, <<FALSE>>)>>}

\* responses without a JSON media type: plain text, and no content at all
GenOtherResponses ==
  {<<Response("200", <<MediaType("text/plain", <<StringSchema>>)>>)>>,
   <<Response("204", <<>>)>>}

GenOperationsOf(ids, tagLists, responseSections, bodies, parameterLists) ==
  {Operation(id, tags, responses, requestBody, parameters) :
     id \in ids, tags \in tagLists,
     responses \in responseSections, requestBody \in bodies, parameters \in parameterLists}

GenIds == {Text_userList, Text_user_list, Text_list, <<>>}

\* the first operation of the document, always a GET, declares a JSON body
\* and has no tag or two
GenFirstOperations ==
  GenOperationsOf({Text_userList, <<>>}, {<<>>, <<Text_User, Text_Role>>}, GenResponses,
                  {<<RequestBody(<<MediaType("application/json", <<Ref("Pet")>>)>>)>>}, {<<>>})
GenOperations ==
  GenOperationsOf(GenIds, {<<>>, <<Text_User>>}, GenResponses \cup GenOtherResponses,
                  RequestBodies, GenParameterLists)

Path_a == <<"/", "a">>
Path_b == <<"/", "b">>

InitGen ==
  /\ task = "gen" /\ pc = "start" /\ thrown = "none"
  /\ NamesIdle /\ PathIdle /\ AnalyzeIdle
  /\ spec = PetLibrary /\ schema = Unused /\ ctx = Unused /\ typeNode = Unused
  /\ options \in {[removeTagFromOperationId |-> r, addReadonlyWriteonlyModifiers |-> m] :
                    r \in BOOLEAN, m \in BOOLEAN}
  /\ \E o1 \in GenFirstOperations, o2 \in GenOperations :
       document \in {<<DocumentEntry(Path_a, "get", o1), DocumentEntry(Path_a, "post", o2)>>,
                     <<DocumentEntry(Path_a, "get", o1), DocumentEntry(Path_b, "get", o2)>>}
  /\ cursor = 0 /\ declarations = <<>>
  /\ classDeclarationMethods = <<>>
  /\ previous = <<>>

\* generateApi down to its loop over the operations
AnalyzePaths ==
  /\ task = "gen" /\ pc = "start"
  /\ LET pathsAnalysis == PathsAnalysis(document, spec)
     IN IF IsThrow(pathsAnalysis)
        THEN /\ thrown' = pathsAnalysis.error /\ pc' = "thrown"
             /\ UNCHANGED <<analyses, declarations>>
        ELSE /\ analyses' = pathsAnalysis.names
             /\ declarations' = declarations \o ApiPreamble(getAllReferencedTypes(pathsAnalysis.names))
             /\ pc' = "operations"
             /\ UNCHANGED thrown
  /\ UNCHANGED <<task, operation, cursor, options, genVars>>
  /\ UNCHANGED <<namesVars, pathVars, mapperVars>>

\* one turn of the loop over the operations.  No collision is looked for: the
\* method is added whatever the methods the class has, and the entry of the
\* tag object is assigned whatever it holds.
AddMethod ==
  /\ task = "gen" /\ pc = "operations" /\ cursor < Len(analyses)
  /\ LET analysis == analyses[cursor + 1]
         methodDeclaration == populateOperationMethod(analysis, spec, options)
         tagObject == TagObject(classDeclarationMethods, analysis.tag)
         name == GetterNameOf(options.removeTagFromOperationId, analysis.tag, analysis.methodName)
     IN IF IsThrow(methodDeclaration)
        THEN /\ thrown' = methodDeclaration.error /\ pc' = "thrown"
             /\ UNCHANGED <<cursor, declarations, classDeclarationMethods>>
        ELSE /\ declarations' = Append(declarations, methodDeclaration)
             /\ classDeclarationMethods' =
                  Put(classDeclarationMethods, analysis.tag,
                      Put(tagObject, name, analysis.methodName))
             /\ cursor' = cursor + 1
             /\ UNCHANGED <<pc, thrown>>
  /\ UNCHANGED <<task, options, document, previous, analyzeVars>>
  /\ UNCHANGED <<namesVars, pathVars, mapperVars>>

\* generateApi after the loop: the get accessors and the pick function
AddAccessors ==
  /\ task = "gen" /\ pc = "operations" /\ cursor = Len(analyses)
  /\ declarations' = declarations \o ApiAccessors(classDeclarationMethods, analyses)
  /\ pc' = "done"
  /\ UNCHANGED <<task, thrown, cursor, options, genVars, analyzeVars>>
  /\ UNCHANGED <<namesVars, pathVars, mapperVars>>

\* a faulty FreshFile: the file of the run before is written again
FreshFile_Kept == declarations

\* generate: project.createSourceFile('api.ts') of a new Project, an empty file
FreshFile == <<>>

\* generate is called once more with the same document and the same
\* configuration: generateApi starts again on a new file, with a new map of
\* the tag objects; what the first call wrote is kept aside.
GenerateAgain ==
  /\ task = "gen" /\ pc = "done" /\ previous = <<>>
  /\ previous' = <<[document |-> document, declarations |-> declarations]>>
  /\ declarations' = FreshFile
  /\ classDeclarationMethods' = <<>>
  /\ analyses' = <<>>
  /\ cursor' = 0
  /\ pc' = "start"
  /\ UNCHANGED <<task, thrown, options, document, operation>>
  /\ UNCHANGED <<namesVars, pathVars, mapperVars>>

\* the operation has no response entry: responses absent or empty
Malformed(op) == op.responses = <<>>

\* generate is called once more with the same configuration, over the
\* document without its operations that have no response entry
GenerateWithoutMalformed ==
  /\ task = "gen" /\ pc = "done" /\ previous = <<>>
  /\ \E e \in 1..Len(document) : Malformed(document[e].operation)
  /\ previous' = <<[document |-> document, declarations |-> declarations]>>
  /\ document' = SelectSeq(document, LAMBDA e : ~Malformed(e.operation))
  /\ declarations' = FreshFile
  /\ classDeclarationMethods' = <<>>
  /\ analyses' = <<>>
  /\ cursor' = 0
  /\ pc' = "start"
  /\ UNCHANGED <<task, thrown, options, operation>>
  /\ UNCHANGED <<namesVars, pathVars, mapperVars>>

NextGen ==
  AnalyzePaths \/ AddMethod \/ AddAccessors \/ GenerateAgain \/ GenerateWithoutMalformed
SpecGen == InitGen /\ [][NextGen]_vars

(***************************************************************************)
(* Claims about the client (SpecGen)                                       *)
(***************************************************************************)
\* two analyses with the same method name in the same tag
Collision ==
  \E j, k \in 1..Len(analyses) :
    j < k /\ analyses[j].tag = analyses[k].tag /\ analyses[j].methodName = analyses[k].methodName

\* C5 as stated: over a document in which two operations collapse to the
\* same method name within one tag, generateApi never runs to its end: the
\* collision is raised as DuplicateMethodNameError.
C5_CollisionIsSurfaced ==
  (task = "gen" /\ Collision) => pc # "done"

----------------------------------------------------------------------------
(***************************************************************************)
(* Claims about tags (SpecAnalyze)                                         *)
(***************************************************************************)
\* C13: an operation (with a response section) that declares no tag is
\* analyzed exactly once, under the tag "default"; one that declares tags
\* is analyzed once for each declared tag, in order, and under no other tag.
C13_DefaultTag ==
  AnalyzeDone =>
    IF operation.tags = <<>>
    THEN Len(analyses) = 1 /\ analyses[1].rawTag = Text_default
    ELSE /\ Len(analyses) = Len(operation.tags)
         /\ \A k \in 1..Len(analyses) : analyses[k].rawTag = operation.tags[k]

\* C13 witness: an operation without tags has been analyzed once, under
\* "default".
C13_Witness ==
  /\ AnalyzeDone /\ operation.tags = <<>>
  /\ Len(analyses) = 1 /\ analyses[1].rawTag = Text_default
  /\ analyses[1].tag = pascalCase(Text_default)

\* the schemas an analysis took for the signature of its callable: those of
\* its located parameters, of its request body and of its success response
SignatureSchemas(a) ==
  {a.params[k].schema[1] : k \in {j \in 1..Len(a.params) : a.params[j].schema # <<>>}}
  \cup {a.requestBodySchema[k] : k \in 1..Len(a.requestBodySchema)}
  \cup {a.successReturnSchema[k] : k \in 1..Len(a.successReturnSchema)}

ReferencedTypeNames(a) == {a.referencedTypes[k] : k \in 1..Len(a.referencedTypes)}

\* C19 as stated: for every analyzed operation, each name referred to by
\* the schema of a parameter, of the request body or of the success
\* response, itself or at any depth through arrays, composites, properties
\* and additional properties, is in the referenced types of the analysis.
C19_EveryReferenceTracked ==
  AnalyzeDone =>
    \A k \in 1..Len(analyses) :
      \A sch \in SignatureSchemas(analyses[k]) :
        RefsOf(sch) \subseteq ReferencedTypeNames(analyses[k])

----------------------------------------------------------------------------
(***************************************************************************)
(* Claims about the tag groupings (SpecGen)                                *)
(***************************************************************************)
GenDone == task = "gen" /\ pc = "done"

\* the declarations of a kind and a name that the file holds
DeclarationsOf(kind, name) ==
  {d \in 1..Len(declarations) : declarations[d].kind = kind /\ declarations[d].name = name}

\* the accessor of a tag exposes the key, bound to the method
Exposes(tg, key, method) ==
  \E d \in DeclarationsOf("getAccessor", tg) :
    \E e \in 1..Len(declarations[d].object) :
      declarations[d].object[e].key = key /\ declarations[d].object[e].value = method

\* C14 as stated (tag names left in the method names): each tag has exactly
\* one accessor, and every analyzed operation of the tag is reachable from
\* it under its own method name, bound to a callable that is its own: the
\* one method of that name of the class.
C14_EveryOperationReachable ==
  (GenDone /\ ~options.removeTagFromOperationId) =>
    \A k \in 1..Len(analyses) :
      /\ Cardinality(DeclarationsOf("getAccessor", analyses[k].tag)) = 1
      /\ Exposes(analyses[k].tag, analyses[k].methodName, analyses[k].methodName)
      /\ Cardinality(DeclarationsOf("method", analyses[k].methodName)) = 1

----------------------------------------------------------------------------
(***************************************************************************)
(* Claims about the callables (SpecGen)                                    *)
(***************************************************************************)
\* a method has just been added for analyses[cursor]: it is the last
\* declaration of the file
MethodAdded == task = "gen" /\ pc = "operations" /\ cursor > 0
LastMethod == declarations[Len(declarations)]

HasDataParameter(m) == \E k \in 1..Len(m.parameters) : m.parameters[k].name = "data"

\* the operation declares a request body, whatever it holds
DeclaresBody(op) == op.requestBody # <<>>

\* the operation declares a request body object whose content has an
\* application/json media type with a schema
DeclaresJsonBody(op) ==
  /\ op.requestBody # <<>>
  /\ op.requestBody[1].kind = "requestBody"
  /\ \E k \in 1..Len(op.requestBody[1].content) :
        /\ op.requestBody[1].content[k].mime = "application/json"
        /\ op.requestBody[1].content[k].schema # <<>>

\* C15 as stated: the callable has a data parameter and passes data exactly
\* when its method is POST, PUT or PATCH and the operation declares a
\* request body; such a method without a declared body passes {}; any other
\* method has no data parameter and passes nothing.
C15_DataWhenBodyDeclared ==
  MethodAdded =>
    LET a == analyses[cursor]
        withData == a.operationMethod \in METHODS_WITH_DATA
    IN /\ (HasDataParameter(LastMethod) /\ LastMethod.data = "data")
            <=> (withData /\ DeclaresBody(a.operation))
       /\ (withData /\ ~DeclaresBody(a.operation)) => LastMethod.data = "{}"
       /\ ~withData => (~HasDataParameter(LastMethod) /\ LastMethod.data = "")

\* C15 amended: the callable has a data parameter and passes data exactly
\* when its method is POST, PUT or PATCH and the request body of the
\* operation declares an application/json schema; a POST, PUT or PATCH
\* operation without such a schema (no body, or a body of other media types
\* only) has no data parameter and passes {}; any other method has no data
\* parameter and passes nothing, whatever the document declares.
C15_DataWhenJsonBodyDeclared ==
  MethodAdded =>
    LET a == analyses[cursor]
        withData == a.operationMethod \in METHODS_WITH_DATA
    IN /\ HasDataParameter(LastMethod) <=> (withData /\ DeclaresJsonBody(a.operation))
       /\ LastMethod.data = "data" <=> (withData /\ DeclaresJsonBody(a.operation))
       /\ (withData /\ ~DeclaresJsonBody(a.operation)) => LastMethod.data = "{}"
       /\ ~withData => LastMethod.data = ""

\* C15 witness: the callable of a POST operation with a JSON body has been
\* added with a data parameter, and passes data.
C15_Witness ==
  /\ MethodAdded
  /\ analyses[cursor].operationMethod = "post"
  /\ DeclaresJsonBody(analyses[cursor].operation)
  /\ HasDataParameter(LastMethod) /\ LastMethod.data = "data"

\* the names of the parameters of a method, in order
ParameterNamesOf(m) == [k \in 1..Len(m.parameters) |-> m.parameters[k].name]

\* the operation has a parameter located in the path, a header or the query
HasLocatedParameter(op) ==
  \E k \in 1..Len(op.parameters) : op.parameters[k].in \in {"path", "header", "query"}

\* C16: the parameters of every callable are, in this order, params
\* (exactly when the operation has a path, header or query parameter), data
\* (when the callable has one) and the transport options, which are always
\* there, last and optional.
C16_ParameterOrder ==
  MethodAdded =>
    /\ ParameterNamesOf(LastMethod) =
         (IF HasLocatedParameter(analyses[cursor].operation) THEN <<"params">> ELSE <<>>)
         \o (IF HasDataParameter(LastMethod) THEN <<"data">> ELSE <<>>)
         \o <<"options">>
    /\ LastMethod.parameters[Len(LastMethod.parameters)].hasQuestionToken

\* C16 witness: a callable with the three parameters params, data and
\* options has been added.
C16_Witness ==
  /\ MethodAdded
  /\ HasLocatedParameter(analyses[cursor].operation)
  /\ ParameterNamesOf(LastMethod) = <<"params", "data", "options">>
  /\ LastMethod.parameters[3].hasQuestionToken

----------------------------------------------------------------------------
(***************************************************************************)
(* Claims about determinism (SpecGen)                                      *)
(***************************************************************************)
SecondRunDone == GenDone /\ previous # <<>>

----------------------------------------------------------------------------
(***************************************************************************)
(* Claims about references under a view (SpecMapper)                       *)
(***************************************************************************)
\* the schema mapped is a reference, and this is the schema its chain of
\* references ends at
ReferenceDone == MapperDone /\ schema.kind = "ref"
ResolvedTarget == retrieveRef(schema.ref, spec)

\* C20: a reference whose target resolves maps, when the prefix option is on
\* and the resolved target carries no enumeration, to WithoutReadonly<Name>
\* for a request body and to WithoutWriteonly<Name> for a response; when the
\* resolved target carries an enumeration, at the end of a chain of
\* references too, or when the option is off, it maps to the bare Name.
C20_ReferenceProjection ==
  (ReferenceDone /\ ~IsThrow(ResolvedTarget)) =>
    typeNode =
      IF ctx.addReadonlyWriteonlyPrefix /\ ~HasEnum(ResolvedTarget)
      THEN TypeReference(IF ctx.view = "input" THEN "WithoutReadonly" ELSE "WithoutWriteonly",
                         <<TypeReference(extractRef(schema.ref), <<>>)>>)
      ELSE TypeReference(extractRef(schema.ref), <<>>)

\* C20 witness: with the option on, the reference to Shade, whose chain ends
\* at the enumeration Color, has been mapped for a request body to the bare
\* name.
C20_Witness ==
  /\ ReferenceDone /\ schema = Ref("Shade")
  /\ ctx.view = "input" /\ ctx.addReadonlyWriteonlyPrefix
  /\ HasEnum(ResolvedTarget)
  /\ typeNode = TypeReference("Shade", <<>>)

----------------------------------------------------------------------------
(***************************************************************************)
(* Claims about the params argument (SpecGen)                              *)
(***************************************************************************)
\* the fields of the params parameter of a method, none when it has no
\* such parameter
ParamsFields(m) ==
  IF m.parameters[1].name = "params"
  THEN {m.parameters[1].type.members[k].key : k \in 1..Len(m.parameters[1].type.members)}
  ELSE {}

\* the parameters of an operation whose location is none of path, header, query
OtherwiseLocated(op) ==
  {op.parameters[k] : k \in {j \in 1..Len(op.parameters) :
                               op.parameters[j].in \notin {"", "path", "header", "query"}}}

\* the parameters of an operation located in the path, a header or the query
Located(op) ==
  {op.parameters[k] : k \in {j \in 1..Len(op.parameters) :
                               op.parameters[j].in \in {"path", "header", "query"}}}

\* C21 as stated: a parameter located elsewhere than in the path, a header
\* or the query (a cookie) is in none of the three lists of the analysis
\* and gives no field to the params parameter of the callable.
C21_OtherLocationsIgnored ==
  MethodAdded =>
    \A q \in OtherwiseLocated(analyses[cursor].operation) :
      /\ \A k \in 1..Len(analyses[cursor].pathParams) : analyses[cursor].pathParams[k] # q
      /\ \A k \in 1..Len(analyses[cursor].headerParams) : analyses[cursor].headerParams[k] # q
      /\ \A k \in 1..Len(analyses[cursor].queryParams) : analyses[cursor].queryParams[k] # q
      /\ \A f \in ParamsFields(LastMethod) : f.name # q.name

\* the fields of the params parameter that bear the name of a parameter
FieldsNamed(m, q) == {f \in ParamsFields(m) : f.name = q.name}

\* C22 as stated: the params parameter has one field for each path, header
\* or query parameter and no other, and every field is optional whatever
\* the required flag of its parameter.
C22_EveryFieldOptional ==
  MethodAdded =>
    /\ {f.name : f \in ParamsFields(LastMethod)}
         = {q.name : q \in Located(analyses[cursor].operation)}
    /\ \A f \in ParamsFields(LastMethod) : f.questionToken

\* C22 amended: the params parameter has exactly one field for each path,
\* header or query parameter, and that field is optional exactly when the
\* parameter declares required: false; a parameter that declares required:
\* true or declares nothing gives a required field.
C22_FieldOptionalWhenNotRequired ==
  (MethodAdded /\ HasLocatedParameter(analyses[cursor].operation)) =>
    \A q \in Located(analyses[cursor].operation) :
      /\ Cardinality(FieldsNamed(LastMethod, q)) = 1
      /\ \A f \in FieldsNamed(LastMethod, q) : f.questionToken <=> (q.required = <<FALSE>>)

\* C22 witness: a callable has been added whose header parameter declares
\* no required flag and whose query parameter declares required: false; the
\* field of the first is required, the field of the second optional.
C22_Witness ==
  /\ MethodAdded
  /\ \E q \in Located(analyses[cursor].operation) :
        /\ q.required = <<>>
        /\ \E f \in FieldsNamed(LastMethod, q) : ~f.questionToken
  /\ \E q \in Located(analyses[cursor].operation) :
        /\ q.required = <<FALSE>>
        /\ \E f \in FieldsNamed(LastMethod, q) : f.questionToken

----------------------------------------------------------------------------
(***************************************************************************)
(* Claims about the result type (SpecGen)                                  *)
(***************************************************************************)
\* the response entry the analysis takes, and whether it declares JSON
ChosenResponse(op) == ObjectEntries(op.responses)[1]
DeclaresJson(entry) ==
  \E k \in 1..Len(entry.content) : entry.content[k].mime = "application/json"

\* C23 as stated: the result type of the callable is the mapped JSON schema
\* when the chosen response declares a JSON media type; otherwise string
\* when the first media type is text/plain, unknown for another first
\* media type, and void when the response has no content.
C23_ResultTypeClassified ==
  MethodAdded =>
    LET entry == ChosenResponse(analyses[cursor].operation)
    IN LastMethod.returnType =
         IF DeclaresJson(entry)
         THEN <<generateTypeForSchema(JsonSchemaOf(entry)[1], spec,
                                      options.addReadonlyWriteonlyModifiers, ResponseOptions)>>
         ELSE IF entry.content = <<>> THEN <<KeywordType("void")>>
         ELSE IF entry.content[1].mime = "text/plain" THEN <<KeywordType("string")>>
         ELSE <<KeywordType("unknown")>>

----------------------------------------------------------------------------
(***************************************************************************)
(* index.ts: generate looks for readOnly / writeOnly properties, then      *)
(* calls generateTypes with what it found.                                 *)
(*                                                                         *)
(* readOnly and writeOnly are keys of the schema of a property: the model  *)
(* keeps them beside that schema, in the property entry.  A property       *)
(* whose schema is a reference can carry them too: '$ref' in prop is then  *)
(* true and the flags are not looked at.                                   *)
(***************************************************************************)
RECURSIVE haveReadonlyOrWriteonly(_)
\* haveReadonlyOrWriteonly of the schema of a property, flags included
haveReadonlyOrWriteonlyProperty(prop) ==
  /\ prop.schema.kind # "ref"
  /\ (prop.readOnly \/ prop.writeOnly \/ haveReadonlyOrWriteonly(prop.schema))

haveReadonlyOrWriteonly(sch) ==
  CASE sch.kind = "ref" -> FALSE
    [] sch.kind = "object" ->
         \/ \E k \in 1..Len(sch.properties) : haveReadonlyOrWriteonlyProperty(sch.properties[k])
         \/ \E k \in 1..Len(sch.additional) : haveReadonlyOrWriteonlyProperty(sch.additional[k])
    [] sch.kind \in {"allOf", "oneOf"} ->
         \E k \in 1..Len(sch.members) : haveReadonlyOrWriteonly(sch.members[k])
    [] sch.kind = "array" ->
         \E k \in 1..Len(sch.items) : haveReadonlyOrWriteonly(sch.items[k])
    [] OTHER -> FALSE

haveReadonlyOrWriteonlyPropsInContents(contents) ==
  \E k \in 1..Len(contents) :
    /\ contents[k].schema # <<>>
    /\ contents[k].schema[1].kind # "ref"
    /\ haveReadonlyOrWriteonly(contents[k].schema[1])

haveReadonlyOrWriteonlyPropsInPaths(doc) ==
  \E e \in 1..Len(doc) :
    LET body == doc[e].operation.requestBody
        responses == doc[e].operation.responses
    IN \/ /\ body # <<>>
          /\ body[1].kind # "ref"
          /\ haveReadonlyOrWriteonlyPropsInContents(body[1].content)
       \/ \E r \in 1..Len(responses) :
            haveReadonlyOrWriteonlyPropsInContents(responses[r].content)

haveReadonlyOrWriteonlyPropsInSchemas(lib) ==
  \E k \in 1..Len(lib) : lib[k].schema.kind # "ref" /\ haveReadonlyOrWriteonly(lib[k].schema)

haveReadonlyOrWriteonlyProps(doc, lib) ==
  haveReadonlyOrWriteonlyPropsInPaths(doc) \/ haveReadonlyOrWriteonlyPropsInSchemas(lib)

(***************************************************************************)
(* SpecGenerate: generate over a document of one operation and a library   *)
(* of one schema, down to the end of generateTypes.                        *)
(***************************************************************************)
Marked(sch, f) == ObjectSchema(<<Prop("p", sch, f[1], f[2])>>, {}, <<>>, FALSE)

\* schemas with a property marked or not, at the top, under an array, under
\* additionalProperties, and on a property that is a reference
MarkedSchemas ==
  {StringSchema, Ref("A")}
  \cup {Marked(StringSchema, f) : f \in Flags}
  \cup {ArraySchema(<<Marked(StringSchema, f)>>, FALSE) : f \in Flags}
  \cup {ObjectSchema(<<>>, {}, <<Prop("[key: string]", Marked(StringSchema, f), FALSE, FALSE)>>,
                     FALSE) : f \in {<<FALSE, FALSE>>, <<FALSE, TRUE>>}}
  \cup {Marked(Ref("A"), f) : f \in {<<FALSE, FALSE>>, <<TRUE, FALSE>>}}

GenerateSchemas ==
  {StringSchema, Marked(StringSchema, <<FALSE, FALSE>>), Marked(StringSchema, <<TRUE, FALSE>>)}

GenerateOperations ==
  {Operation(Text_list, <<>>, <<Response("200", content)>>, requestBody, parameters) :
     content \in {<<>>} \cup {<<MediaType("application/json", <<sch>>)>> : sch \in GenerateSchemas},
     requestBody \in {<<>>, <<Ref("Body")>>}
                     \cup {<<RequestBody(<<MediaType("multipart/form-data", <<sch>>)>>)>> :
                             sch \in GenerateSchemas},
     parameters \in {<<>>} \cup {<<Parameter(Text_q, "query", <<sch>>, <<TRUE>>)>> :
                                    sch \in GenerateSchemas}}

InitGenerate ==
  /\ task = "generate" /\ pc = "start" /\ thrown = "none"
  /\ NamesIdle /\ PathIdle /\ AnalyzeIdle
  /\ \E a \in MarkedSchemas : spec = <<Entry("A", a)>>
  /\ schema = Unused /\ ctx = Unused /\ typeNode = Unused
  /\ \E o \in GenerateOperations : document = <<DocumentEntry(Path_a, "post", o)>>
  /\ classDeclarationMethods = Unused /\ previous = Unused
  /\ options = Unused
  /\ cursor = 0 /\ declarations = <<>>

\* generate down to its call of generateTypes
DetectModifiers ==
  /\ task = "generate" /\ pc = "start"
  /\ options' = [addReadonlyWriteonlyModifiers |-> haveReadonlyOrWriteonlyProps(document, spec)]
  /\ task' = "types"
  /\ UNCHANGED <<pc, thrown, cursor, declarations>>
  /\ UNCHANGED <<namesVars, pathVars, mapperVars, analyzeVars, genVars>>

NextGenerate == DetectModifiers \/ NextTypes
SpecGenerate == InitGenerate /\ [][NextGenerate]_vars

(***************************************************************************)
(* Claims about the projection helpers (SpecGenerate)                      *)
(***************************************************************************)
\* a property of the schema, at any depth, is marked readOnly or writeOnly
RECURSIVE HasMarkedProperty(_)
HasMarkedProperty(sch) ==
  CASE sch.kind = "object" ->
         \E k \in 1..Len(PropertiesOf(sch)) :
           \/ PropertiesOf(sch)[k].readOnly
           \/ PropertiesOf(sch)[k].writeOnly
           \/ HasMarkedProperty(PropertiesOf(sch)[k].schema)
    [] sch.kind \in {"allOf", "oneOf"} ->
         \E k \in 1..Len(sch.members) : HasMarkedProperty(sch.members[k])
    [] sch.kind = "array" -> \E k \in 1..Len(sch.items) : HasMarkedProperty(sch.items[k])
    [] OTHER -> FALSE

\* the schemas of the document: the library, and for each operation the
\* schemas of its parameters, of its request body and of its responses
DocumentSchemas ==
  {spec[k].schema : k \in 1..Len(spec)}
  \cup UNION {LET op == document[e].operation
              IN {op.parameters[k].schema[1] :
                    k \in {j \in 1..Len(op.parameters) : op.parameters[j].schema # <<>>}}
                 \cup UNION {{m.schema[1] : m \in {op.requestBody[b].content[c] :
                                                     c \in 1..Len(op.requestBody[b].content)}} :
                             b \in {j \in 1..Len(op.requestBody) :
                                      op.requestBody[j].kind = "requestBody"}}
                 \cup UNION {{op.responses[r].content[c].schema[1] :
                                c \in 1..Len(op.responses[r].content)} :
                             r \in 1..Len(op.responses)}
              : e \in 1..Len(document)}

HelpersEmitted == Declared("WithoutReadonly") /\ Declared("WithoutWriteonly")

\* C24 as stated: once generateTypes has added what comes before its loop,
\* the two projection helpers are in the type library if and only if some
\* property of the document (schema library, parameter schemas, request
\* bodies, responses, at any depth) is marked readOnly or writeOnly.
C24_HelpersWhenMarked ==
  (task = "types" /\ pc # "start") =>
    (HelpersEmitted <=> \E sch \in DocumentSchemas : HasMarkedProperty(sch))

----------------------------------------------------------------------------
(***************************************************************************)
(* Claims about property signatures (SpecMapper)                           *)
(***************************************************************************)
\* an object schema has been mapped to a type literal
ObjectDone == MapperDone /\ schema.kind = "object" /\ typeNode.kind = "TypeLiteral"

\* the declared properties of the schema that bear a name
PropertiesNamed(name) ==
  {schema.properties[k] : k \in {j \in 1..Len(schema.properties) :
                                   schema.properties[j].name = name}}

\* C25: in the type literal of an object schema, the signature of each
\* declared property that the view keeps has a question token exactly when
\* the name of the property is not in the required list of the schema (an
\* absent list included), and the readonly modifier exactly when the
\* property is marked readOnly.
C25_OptionalAndReadonly ==
  ObjectDone =>
    \A m \in 1..Len(typeNode.members) :
      \A prop \in PropertiesNamed(typeNode.members[m].name) :
        /\ typeNode.members[m].questionToken <=> (prop.name \notin schema.required)
        /\ (typeNode.members[m].modifiers = <<"readonly">>) <=> prop.readOnly
        /\ typeNode.members[m].modifiers \in {<<>>, <<"readonly">>}

\* C25 witness: an object with a readOnly property p outside the required
\* list and a required property q has been mapped for a response: p is
\* optional and readonly, q is neither.
C25_Witness ==
  /\ ObjectDone /\ ctx.view = "output"
  /\ schema.required = {"q"}
  /\ \E prop \in PropertiesNamed("p") : prop.readOnly
  /\ Len(typeNode.members) = 2
  /\ typeNode.members[1].name = "p" /\ typeNode.members[1].questionToken
  /\ typeNode.members[1].modifiers = <<"readonly">>
  /\ typeNode.members[2].name = "q" /\ ~typeNode.members[2].questionToken
  /\ typeNode.members[2].modifiers = <<>>

----------------------------------------------------------------------------
(***************************************************************************)
(* SpecCall: the transport configuration built by a generated callable.    *)
(* populateOperationMethod writes, after the data, either options or       *)
(* Object.assign({}, { headers: pick(params, ...), params: pick(params,    *)
(* ...) }, options).  An object is a function from its own keys; the       *)
(* options argument is a sequence of at most one object, empty when the    *)
(* caller gives none.                                                      *)
(***************************************************************************)
\* the pick function of the generated file: the keys that are in obj
pick(obj, keys) ==
  [key \in {keys[k] : k \in 1..Len(keys)} \cap DOMAIN obj |-> obj[key]]

\* a faulty ObjectAssign: the target keeps the keys it has
ObjectAssign_TargetWins(target, source) ==
  [key \in DOMAIN target \cup DOMAIN source |->
     IF key \in DOMAIN target THEN target[key] ELSE source[key]]

\* Object.assign(target, source) for one source
ObjectAssign(target, source) ==
  [key \in DOMAIN target \cup DOMAIN source |->
     IF key \in DOMAIN source THEN source[key] ELSE target[key]]

\* the object literal of the derived keys
DerivedObject(m, prms) ==
  [key \in (IF m.headers # <<>> THEN {"headers"} ELSE {})
            \cup (IF m.params # <<>> THEN {"params"} ELSE {}) |->
     IF key = "headers" THEN pick(prms, m.headers[1].names) ELSE pick(prms, m.params[1].names)]

\* the last argument of the axios call of a method
CallConfig(m, prms, opts) ==
  IF m.headers = <<>> /\ m.params = <<>> THEN opts
  ELSE LET derived == ObjectAssign(<<>>, DerivedObject(m, prms))
       IN <<IF opts = <<>> THEN derived ELSE ObjectAssign(derived, opts[1])>>

Text_g == <<"g">>
CallParameterLists ==
  {<<>>,
   <<Parameter(Text_id, "path", <<StringSchema>>, <<TRUE>>)>>,
   <<Parameter(Text_h, "header", <<StringSchema>>, <<TRUE>>)>>,
   <<Parameter(Text_q, "query", <<StringSchema>>, <<FALSE>>)>>,
   <<Parameter(Text_h, "header", <<StringSchema>>, <<TRUE>>),
     Parameter(Text_q, "query", <<StringSchema>>, <<FALSE>>),
     Parameter(Text_g, "header", <<StringSchema>>, <<FALSE>>)>>}

\* the objects of the given keys, each key with a value of the set
ObjectsOver(keys, values) == UNION {[S -> values] : S \in SUBSET keys}

CallValue == [x |-> "9"]

InitCall ==
  /\ task = "call" /\ pc = "start" /\ thrown = "none"
  /\ NamesIdle /\ MapperIdle /\ AnalyzeIdle /\ GenIdle
  /\ pathParams = Unused /\ url = Unused
  /\ \E parameters \in CallParameterLists :
       LET op == Operation(Text_list, <<>>, <<Response("200", <<>>)>>, <<>>, parameters)
           a == analyzeOperationTag(op, PetLibrary, Text_list, Path_a, "get", Text_default)
       IN declarations = <<populateOperationMethod(a, PetLibrary, [addReadonlyWriteonlyModifiers |-> FALSE])>>
  /\ params \in ObjectsOver({Text_h, Text_q, Text_g}, {"1", "2"})
  /\ callOptions \in {<<>>} \cup {<<o>> : o \in ObjectsOver({"headers", "params", "auth"}, {CallValue})}
  /\ config = Unused
  /\ cursor = 0 /\ options = Unused

\* a call of the generated method: its last argument is evaluated
CallMethod ==
  /\ task = "call" /\ pc = "start"
  /\ config' = CallConfig(declarations[1], params, callOptions)
  /\ pc' = "done"
  /\ UNCHANGED <<task, thrown, namesVars, pathParams, params, url, callOptions>>
  /\ UNCHANGED <<mapperVars, loopVars, analyzeVars, genVars>>

NextCall == CallMethod
SpecCall == InitCall /\ [][NextCall]_vars

(***************************************************************************)
(* Claims about the transport configuration (SpecCall)                     *)
(***************************************************************************)
CallDone == task = "call" /\ pc = "done"

\* the names of the parameters of a kind that the method declares, as the
\* pick of its call lists them
PickedNames(picks) ==
  IF picks = <<>> THEN {} ELSE {picks[1].names[k] : k \in 1..Len(picks[1].names)}

\* C26: when the operation has header or query parameters, the last
\* argument of the call has, for every top-level key of the options, the
\* value the caller gave; otherwise under headers (params) exactly the
\* header (query) parameters that params holds; and no other key.  When it
\* has neither, the last argument is the options argument itself.
C26_ShallowMerge ==
  CallDone =>
    LET m == declarations[1]
        given == IF callOptions = <<>> THEN <<>> ELSE callOptions[1]
    IN IF m.headers = <<>> /\ m.params = <<>> THEN config = callOptions
       ELSE /\ Len(config) = 1
            /\ DOMAIN config[1] = DOMAIN given
                  \cup (IF m.headers # <<>> THEN {"headers"} ELSE {})
                  \cup (IF m.params # <<>> THEN {"params"} ELSE {})
            /\ \A key \in DOMAIN config[1] :
                 IF key \in DOMAIN given THEN config[1][key] = given[key]
                 ELSE LET names == PickedNames(IF key = "headers" THEN m.headers ELSE m.params)
                      IN /\ DOMAIN config[1][key] = names \cap DOMAIN params
                         /\ \A n \in DOMAIN config[1][key] : config[1][key][n] = params[n]

\* C26 witness: a callable with header and query parameters has been called
\* with params holding h and q and options holding headers and auth: the
\* headers of the caller are passed, the query is the one picked from params.
C26_Witness ==
  /\ CallDone
  /\ declarations[1].headers # <<>> /\ declarations[1].params # <<>>
  /\ DOMAIN params = {Text_h, Text_q}
  /\ callOptions # <<>> /\ DOMAIN callOptions[1] = {"headers", "auth"}
  /\ DOMAIN config[1] = {"headers", "params", "auth"}
  /\ config[1]["headers"] = CallValue
  /\ DOMAIN config[1]["params"] = {Text_q} /\ config[1]["params"][Text_q] = params[Text_q]

----------------------------------------------------------------------------
(***************************************************************************)
(* Claims about operations without a response entry (SpecGen)              *)
(***************************************************************************)
\* how many analyses the operations of a document that have a response
\* entry give: one for each tag
RECURSIVE ExpectedAnalyses(_)
ExpectedAnalyses(doc) ==
  IF doc = <<>> THEN 0
  ELSE (IF Malformed(Head(doc).operation) THEN 0 ELSE Len(TagsOf(Head(doc).operation)))
       + ExpectedAnalyses(Tail(doc))

----------------------------------------------------------------------------
(***************************************************************************)
(* Claims about operations with several tags (SpecGen)                     *)
(***************************************************************************)
\* the operations of the document that have a response entry
WellFormed(doc) == SelectSeq(doc, LAMBDA e : ~Malformed(e.operation))

\* the method declarations of the file
MethodsOf(decls) == SelectSeq(decls, LAMBDA m : m.kind = "method")

\* C28: every operation gives exactly one callable declaration, whatever
\* the number of its tags, so the file has as many method declarations as
\* the document has operations with a response entry; and each tag of the
\* operation has a grouping that refers to the callable.
C28_OneCallablePerOperation ==
  GenDone =>
    /\ Len(MethodsOf(declarations)) = Len(WellFormed(document))
    /\ \A k \in 1..Len(analyses) :
         \E g \in 1..Len(classDeclarationMethods) :
           /\ classDeclarationMethods[g].key = analyses[k].tag
           /\ \E n \in 1..Len(classDeclarationMethods[g].value) :
                classDeclarationMethods[g].value[n].value = analyses[k].methodName

----------------------------------------------------------------------------
(***************************************************************************)
(* SpecNaming: generate over a library of one named schema and a document  *)
(* of one operation that refers to it: generateTypes writes definitions.ts,*)
(* then generateApi analyses the operation and writes api.ts.              *)
(***************************************************************************)
SchemaNames == {"Pet", "my-pet", "a.b"}

NamingSchemas ==
  {StringSchema, ColorSchema, Primitive("integer", "", TRUE, <<1, 2>>, FALSE),
   ObjectSchema(<<Prop("name", StringSchema, FALSE, FALSE)>>, {}, <<>>, FALSE)}

\* the operation answers with the named schema, and takes it as its body
\* when it is a POST
NamingOperation(name) ==
  Operation(Text_list, <<>>,
            <<Response("200", <<MediaType("application/json", <<Ref(name)>>)>>)>>,
            <<RequestBody(<<MediaType("application/json", <<Ref(name)>>)>>)>>, <<>>)

InitNaming ==
  /\ task = "naming" /\ pc = "types" /\ thrown = "none"
  /\ NamesIdle /\ PathIdle
  /\ \E name \in SchemaNames, sch \in NamingSchemas, method \in {"get", "post"} :
       /\ spec = <<Entry(name, sch)>>
       /\ document = <<DocumentEntry(Path_a, method, NamingOperation(name))>>
  /\ options \in {[removeTagFromOperationId |-> FALSE, addReadonlyWriteonlyModifiers |-> m] :
                    m \in BOOLEAN}
  /\ schema = Unused /\ ctx = Unused /\ typeNode = Unused
  /\ operation = Unused /\ analyses = <<>>
  /\ classDeclarationMethods = Unused /\ previous = Unused
  /\ cursor = 0 /\ declarations = <<>>

\* generateTypes: the declaration of the named schema
DeclareNamed ==
  /\ task = "naming" /\ pc = "types"
  /\ LET declaration == DeclarationOf(spec[1].name, spec[1].schema, spec)
     IN IF IsThrow(declaration)
        THEN thrown' = declaration.error /\ pc' = "thrown" /\ UNCHANGED declarations
        ELSE declarations' = <<declaration>> /\ pc' = "analysis" /\ UNCHANGED thrown
  /\ UNCHANGED <<task, cursor, options, analyzeVars, genVars>>
  /\ UNCHANGED <<namesVars, pathVars, mapperVars>>

\* generateApi: the analysis of the operation and the import of the
\* referenced types
AnalyzeNamed ==
  /\ task = "naming" /\ pc = "analysis"
  /\ LET pathsAnalysis == PathsAnalysis(document, spec)
     IN IF IsThrow(pathsAnalysis)
        THEN /\ thrown' = pathsAnalysis.error /\ pc' = "thrown"
             /\ UNCHANGED <<analyses, declarations>>
        ELSE /\ analyses' = pathsAnalysis.names
             /\ declarations' = declarations \o ApiPreamble(getAllReferencedTypes(pathsAnalysis.names))
             /\ pc' = "api"
             /\ UNCHANGED thrown
  /\ UNCHANGED <<task, operation, cursor, options, genVars>>
  /\ UNCHANGED <<namesVars, pathVars, mapperVars>>

\* generateApi: the callable of the operation
PopulateNamed ==
  /\ task = "naming" /\ pc = "api"
  /\ LET methodDeclaration == populateOperationMethod(analyses[1], spec, options)
     IN IF IsThrow(methodDeclaration)
        THEN thrown' = methodDeclaration.error /\ pc' = "thrown" /\ UNCHANGED declarations
        ELSE declarations' = Append(declarations, methodDeclaration) /\ pc' = "done"
             /\ UNCHANGED thrown
  /\ UNCHANGED <<task, cursor, options, analyzeVars, genVars>>
  /\ UNCHANGED <<namesVars, pathVars, mapperVars>>

NextNaming == DeclareNamed \/ AnalyzeNamed \/ PopulateNamed
SpecNaming == InitNaming /\ [][NextNaming]_vars

(***************************************************************************)
(* Claims about the identifier of a named schema (SpecNaming)              *)
(***************************************************************************)
NamingDone == task = "naming" /\ pc = "done"

\* the schema name a type node refers to, under a projection helper or not
ReferredName(node) ==
  IF node.typeName \in {"WithoutReadonly", "WithoutWriteonly"}
  THEN node.typeArguments[1].typeName ELSE node.typeName

\* the type nodes of the callable that come from a schema: the type of its
\* data parameter and its result type
SchemaTypesOf(m) ==
  LET data == SelectSeq(m.parameters, LAMBDA q : q.name = "data")
  IN [k \in 1..Len(data) |-> data[k].type] \o m.returnType

\* the names imported from ./definitions
ImportedNames(decls) ==
  LET imports == SelectSeq(decls, LAMBDA i : i.kind = "import" /\ i.from = "./definitions")
  IN IF imports = <<>> THEN <<>> ELSE imports[1].names

\* C29: the identifier under which the named schema is declared in the
\* type library is the identifier of every reference to it in the callable
\* and the identifier imported for it, for an enumeration as for an alias.
C29_SameIdentifier ==
  NamingDone =>
    /\ declarations[1].kind \in {"typeAlias", "enum"}
    /\ ImportedNames(declarations) = <<declarations[1].name>>
    /\ SchemaTypesOf(LastMethod) # <<>>
    /\ \A k \in 1..Len(SchemaTypesOf(LastMethod)) :
         /\ SchemaTypesOf(LastMethod)[k].kind = "TypeReference"
         /\ ReferredName(SchemaTypesOf(LastMethod)[k]) = declarations[1].name

\* C29 witness: the enumeration named my-pet is declared as my_pet, and
\* the callable that takes it and answers with it has been generated.
C29_Witness ==
  /\ NamingDone
  /\ spec[1].name = "my-pet" /\ declarations[1] = EnumDeclaration("my_pet", ColorSchema.enum)
  /\ Len(SchemaTypesOf(LastMethod)) = 2

----------------------------------------------------------------------------
(***************************************************************************)
(* Claims about the nullable flag (SpecMapper)                             *)
(***************************************************************************)
\* null is a value of the type
RECURSIVE AdmitsNull(_)
AdmitsNull(node) ==
  CASE node.kind = "NullLiteral" -> TRUE
    [] node.kind = "Keyword" -> node.keyword \in {"null", "any", "unknown"}
    [] node.kind = "UnionType" -> \E k \in 1..Len(node.types) : AdmitsNull(node.types[k])
    [] node.kind = "IntersectionType" -> \A k \in 1..Len(node.types) : AdmitsNull(node.types[k])
    [] node.kind = "ParenthesizedType" -> AdmitsNull(node.type)
    [] OTHER -> FALSE

\* the mapped schema is an object, an array or a composite of two members
\* or more, and its nullable flag is set
NullableStructure ==
  /\ schema.kind \in {"object", "array", "allOf", "oneOf"}
  /\ schema.kind \in {"allOf", "oneOf"} => Len(schema.members) >= 2
  /\ schema.nullable

\* C30: an object schema, an array schema or a composite of two members or
\* more whose nullable flag is set maps to a type that admits null.
C30_NullableHonoured ==
  (MapperDone /\ ~IsThrow(typeNode) /\ NullableStructure) => AdmitsNull(typeNode)

=============================================================================
